---- MODULE Spec2Model ----
(***************************************************************************)
(* statetrooper: a generic, mutex-guarded finite state machine.            *)
(*                                                                         *)
(* src/statetrooper.go holds two definitions of the package.  The first    *)
(* (lines 27-187) keeps the history in a slice and takes the mutex at the  *)
(* top of every exported method.  The second (lines 215-333) keeps the     *)
(* history in a map keyed by time.Time, exports its fields, and validates  *)
(* a transition in a critical section of its own before the one that logs  *)
(* and commits it.  Spec is the first definition, SpecV2 the second; the   *)
(* names of the second carry the suffix V2.                                *)
(*                                                                         *)
(* The other specifications run the first definition from the set-up of a  *)
(* test or an example: SpecCapacity (the README's constructor call with a  *)
(* capacity), SpecTest (Test_concurrencyRaceCondition), SpecMarshal        *)
(* (Test_marshalJSON), SpecJSON (the round trip of examples/struct),       *)
(* SpecDecode (Test_unmarshalJSON), SpecCopy (a caller that keeps and      *)
(* writes to the slice Transitions() returned), SpecRetry (Test_transition *)
(* with callers that remember the error they were given), SpecString (all  *)
(* seven exported methods, String included), SpecFair (the same methods    *)
(* under a fair scheduler and a mutex that hands over to a waiting         *)
(* goroutine), SpecRules (documents made                                   *)
(* under different rule sets), SpecTracking (Test_transitionTracking with  *)
(* callers that write to their metadata maps), and SpecRulesDiagram and    *)
(* SpecDiagram (the diagrams of examples/struct), SpecAsk (callers that    *)
(* ask CanTransition and then call Transition, as examples/struct does),   *)
(* SpecOutcome (Test_transition with callers that remember the outcome of  *)
(* their last Transition) and SpecUtils (the tests of utils.go).           *)
(***************************************************************************)
EXTENDS Integers, Sequences, FiniteSets, TLC

\* ---------------------------------------------------------------- bounds
NumThreads == 2
MaxTransitions == 2
MaxRules == 2
MaxClock == 1
MaxCapacity == 1

Threads == 1..NumThreads

\* The state type T of the tests (CustomStateEnum) and the metadata maps.
States == {"A", "B", "C"}
InitialState == "A"
NilMetadata == "nil"
MetadataValues == {NilMetadata, "requested_by=Mahmoud"}

NoThread == 0
\* the error interface: nil is the empty set, an error value a singleton
NoError == {}
NoValue == "none"
\* var transitions []Transition[T]: the nil slice
NilSlice == [array |-> "nil", elems |-> <<>>]

VARIABLES
  currentState,     \* FSM.currentState (first definition), *FSM.CurrentState (second)
  transitions,      \* FSM.transitions: slice of Transition records
  TransitionsV2,    \* FSM.Transitions of the second definition: map[time.Time]Transition
  ruleset,          \* FSM.ruleset: map from a state to its list of targets
  mu,               \* FSM.mu: the thread that holds the mutex, or NoThread
  pc,               \* per thread: the statement it executes next
  op,               \* per thread: the exported method it is inside
  targetState,      \* per thread: parameter targetState
  metadata,         \* per thread: parameter metadata
  fromState,        \* per thread: parameter fromState of canTransition (second definition)
  ok,               \* per thread: result of the inner CanTransition call (second definition)
  tn,               \* per thread: local tn := time.Now()
  ret,              \* per thread: the value being returned
  clock,            \* the wall clock read by time.Now()
  historyCapacity,  \* the history size the caller configures (README, examples/struct)
  registered,       \* history variable: the (from, to) pairs passed to AddRule so far
  entry,            \* history variable: current state, history and rules when the mutex was taken
  committed,        \* history variable: the record of every Transition that committed since the
                    \* history was last replaced, in commit order
  toStates,         \* per thread: the variadic parameter toState of AddRule
  script,           \* per thread: the calls a test goroutine still has to make, or NoValue
  held,             \* the slice a caller keeps from an earlier Transitions() call
  data,             \* per thread: parameter data of UnmarshalJSON
  temp,             \* per thread: the staging value UnmarshalJSON decodes into
  newOrder,         \* per thread: the FSM a caller creates to decode a document into
  original,         \* history variable, per thread: state, history and rules a kept document was made of
  stateType,        \* the type argument T of FSM[T]: what kind of type the states are
  heap,             \* the metadata maps callers made, by name: a map value is a reference
  refused           \* the error a caller was last given by Transition, as a set

vars == <<currentState, transitions, TransitionsV2, ruleset, mu, pc, op,
          targetState, metadata, fromState, ok, tn, ret, clock,
          historyCapacity, registered, entry, committed,
          toStates, script, held, data, temp, newOrder, original,
          stateType, heap, refused>>

\* ------------------------------------------------------------ data model
\* a Transition literal that leaves the Metadata field out
TransitionRecordNoMetadata(from, to, ts, md) ==
  [FromState |-> from, ToState |-> to, Timestamp |-> ts, Metadata |-> NilMetadata]

\* type Transition[T], and the literal Transition[T]{...} of lines 109-114
TransitionRecord(from, to, ts, md) ==
  [FromState |-> from, ToState |-> to, Timestamp |-> ts, Metadata |-> md]

\* type TransitionError[T]
TransitionError(from, to) == [FromState |-> from, ToState |-> to]

\* the variadic argument lists of AddRule
ToLists == UNION {[1..n -> States] : n \in 0..MaxRules}

RECURSIVE SumLen(_, _)
SumLen(rs, keys) ==
  IF keys = {} THEN 0
  ELSE LET k == CHOOSE x \in keys : TRUE
       IN Len(rs[k]) + SumLen(rs, keys \ {k})

RuleCount == SumLen(ruleset, DOMAIN ruleset)

\* a loop that looks at the first element only
rangeFirstOnly(validTransitions, toState, i) ==
  Len(validTransitions) >= 1 /\ validTransitions[1] = toState

\* for _, validState := range validTransitions { if validState == *toState ... }
RECURSIVE rangeValidTransitions(_, _, _)
rangeValidTransitions(validTransitions, toState, i) ==
  IF i > Len(validTransitions) THEN FALSE
  ELSE IF validTransitions[i] = toState THEN TRUE
  ELSE rangeValidTransitions(validTransitions, toState, i + 1)

\* a validation that refuses a target the history already holds
canTransitionOnce(from, to) ==
  IF from \notin DOMAIN ruleset THEN FALSE
  ELSE /\ rangeValidTransitions(ruleset[from], to, 1)
       /\ \A i \in 1..Len(transitions) : transitions[i].ToState # to

\* a validation that takes staying in a state for permitted
canTransitionOrStay(from, to) ==
  IF from = to THEN TRUE
  ELSE IF from \notin DOMAIN ruleset THEN FALSE
  ELSE rangeValidTransitions(ruleset[from], to, 1)

\* a validation that accepts every target
canTransitionAlways(from, to) == TRUE

\* func (fsm *FSM[T]) canTransition(fromState *T, toState *T) bool
canTransition(from, to) ==
  IF from \notin DOMAIN ruleset THEN FALSE
  ELSE rangeValidTransitions(ruleset[from], to, 1)

\* an assignment that overwrites the list instead of appending to it
assignRule(rs, from, to) ==
  [k \in DOMAIN rs \cup {from} |-> IF k = from THEN to ELSE rs[k]]

\* fsm.ruleset[fromState] = append(fsm.ruleset[fromState], toState...)
appendRule(rs, from, to) ==
  [k \in DOMAIN rs \cup {from} |->
     IF k = from
     THEN (IF from \in DOMAIN rs THEN rs[from] ELSE <<>>) \o to
     ELSE rs[k]]

\* ---------------------------------------------------------- encoding/json
\* the JSON values json.Marshal writes and json.Unmarshal reads
jsonNull == [kind |-> "null"]
jsonString(text) == [kind |-> "string", value |-> text]
jsonArray(items) == [kind |-> "array", items |-> items]
jsonObject(members) == [kind |-> "object", members |-> members]

\* time.Time.MarshalJSON: the instant as an RFC 3339 text
formatRFC3339(ts) == "2022-01-01T12:00:0" \o ToString(ts) \o "Z"

\* Timestamp *time.Time `json:"timestamp"`: Transition always sets it (line 112)
marshalTimestamp(ts) == jsonString(formatRFC3339(ts))

\* Metadata map[string]string `json:"metadata"`: a nil map is written as null
marshalMetadata(md) ==
  IF md = NilMetadata THEN jsonNull ELSE jsonObject(md)

\* type Transition[T] through its json tags, lines 37-42
marshalTransition(record) ==
  jsonObject([from_state |-> jsonString(record.FromState),
              to_state |-> jsonString(record.ToState),
              timestamp |-> marshalTimestamp(record.Timestamp),
              metadata |-> marshalMetadata(record.Metadata)])

\* a writer that puts the newest record first
marshalNewestFirst(records) ==
  IF records = <<>> THEN jsonNull
  ELSE jsonArray([i \in 1..Len(records) |->
                    marshalTransition(records[Len(records) + 1 - i])])

\* Transitions []Transition[T] `json:"transitions"`: element i of the array
\* is record i of the slice; the nil slice is written as null
marshalTransitions(records) ==
  IF records = <<>> THEN jsonNull
  ELSE jsonArray([i \in 1..Len(records) |-> marshalTransition(records[i])])

\* an export struct with a field for the rules
marshalExportWithRules(state, records) ==
  jsonObject([current_state |-> jsonString(state),
              transitions |-> marshalTransitions(records),
              rules |-> jsonObject(ruleset)])

\* json.Marshal(FSMExport{CurrentState: fsm.currentState, Transitions: fsm.transitions})
marshalExport(state, records) ==
  jsonObject([current_state |-> jsonString(state),
              transitions |-> marshalTransitions(records)])

\* ------------------------------------------------- decoding (spec 4.3)
\* src/ holds the test and the callers of the decoder, not the decoder; the
\* definitions of this section follow section 4.3 of the specification.

\* a text that is no JSON document
NotJSON == [kind |-> "invalid"]

\* time.Time.UnmarshalJSON: the texts that parse as RFC 3339
parsesRFC3339(text) == \E ts \in 0..MaxClock : formatRFC3339(ts) = text

parseRFC3339(text) == CHOOSE ts \in 0..MaxClock : formatRFC3339(ts) = text

\* one entry of "transitions" that does not have the shape of a Transition
malformedTransition(item) ==
  \/ item.kind # "object"
  \/ item.members.from_state.kind # "string"
  \/ item.members.to_state.kind # "string"
  \/ item.members.timestamp.kind # "string"
  \/ ~parsesRFC3339(item.members.timestamp.value)
  \/ item.members.metadata.kind \notin {"null", "object"}

\* MalformedDocument: the input does not match {current_state, transitions: [...]}
malformed(document) ==
  \/ document.kind # "object"
  \/ document.members.current_state.kind # "string"
  \/ document.members.transitions.kind \notin {"null", "array"}
  \/ /\ document.members.transitions.kind = "array"
     /\ \E i \in 1..Len(document.members.transitions.items) :
          malformedTransition(document.members.transitions.items[i])

unmarshalMetadata(value) ==
  IF value.kind = "null" THEN NilMetadata ELSE value.members

unmarshalTransition(item) ==
  TransitionRecord(item.members.from_state.value, item.members.to_state.value,
                   parseRFC3339(item.members.timestamp.value),
                   unmarshalMetadata(item.members.metadata))

unmarshalTransitions(value) ==
  IF value.kind = "null" THEN <<>>
  ELSE [i \in 1..Len(value.items) |-> unmarshalTransition(value.items[i])]

\* the staging area: the document parsed in full before the FSM is touched
unmarshalExport(document) ==
  IF malformed(document)
  THEN [err |-> {"MalformedDocument"}]
  ELSE [err |-> NoError,
        CurrentState |-> document.members.current_state.value,
        Transitions |-> unmarshalTransitions(document.members.transitions)]

\* a cut that keeps the oldest records
keepOldest(records, capacity) ==
  IF Len(records) <= capacity THEN records ELSE SubSeq(records, 1, capacity)

\* front truncation: only the most recent capacity records are retained
truncate(records, capacity) ==
  IF Len(records) <= capacity THEN records
  ELSE SubSeq(records, Len(records) - capacity + 1, Len(records))

\* ------------------------------------------------------------------ Init
\* func NewFSM[T comparable](initialState T) *FSM[T]; the README and
\* examples/struct call it with a second argument, the history capacity
NewFSM(initialState, capacity) ==
  /\ currentState = initialState
  /\ transitions = <<>>
  /\ TransitionsV2 = <<>>
  /\ ruleset = <<>>
  /\ mu = NoThread
  /\ pc = [t \in Threads |-> "idle"]
  /\ op = [t \in Threads |-> NoValue]
  /\ targetState = [t \in Threads |-> NoValue]
  /\ metadata = [t \in Threads |-> NoValue]
  /\ fromState = [t \in Threads |-> NoValue]
  /\ ok = [t \in Threads |-> NoValue]
  /\ tn = [t \in Threads |-> NoValue]
  /\ ret = [t \in Threads |-> NoValue]
  /\ clock = 0
  /\ historyCapacity = capacity
  /\ registered = {}
  /\ entry = NoValue
  /\ committed = <<>>
  /\ toStates = [t \in Threads |-> NoValue]
  /\ script = [t \in Threads |-> NoValue]
  /\ held = NilSlice
  /\ data = [t \in Threads |-> NoValue]
  /\ temp = [t \in Threads |-> NoValue]
  /\ newOrder = [t \in Threads |-> NoValue]
  /\ original = [t \in Threads |-> NoValue]
  /\ stateType = "CustomStateEnum"
  /\ heap = <<>>
  /\ refused = {}

\* fsm := NewFSM[CustomStateEnum](CustomStateEnumA)
Init == NewFSM(InitialState, NoValue)

\* fsm := statetrooper.NewFSM[OrderStatusEnum](StatusCreated, 10)
InitCapacity == \E capacity \in 0..MaxCapacity : NewFSM(InitialState, capacity)

\* ------------------------------------------------- first definition (Spec)
Ops == {"CanTransition", "AddRule", "Transition", "CurrentState", "Transitions"}

\* a method that runs its body without waiting for the mutex
lockWithoutWaiting(t, methods) ==
  /\ pc[t] = "idle"
  /\ \E o \in methods :
       /\ o = "Transition" => Len(transitions) < MaxTransitions
       /\ op' = [op EXCEPT ![t] = o]
       /\ pc' = [pc EXCEPT ![t] = o]
  /\ mu' = t
  /\ entry' = [currentState |-> currentState, transitions |-> transitions,
              ruleset |-> ruleset]
  /\ UNCHANGED <<currentState, transitions, TransitionsV2, ruleset, targetState,
                 metadata, fromState, ok, tn, ret, clock, historyCapacity, registered,
                 committed, toStates, script, held, data, temp, newOrder, original,
                 stateType, heap, refused>>

LockWithoutWaiting(t) ==
  lockWithoutWaiting(t, {"CanTransition", "AddRule", "Transition", "CurrentState",
                         "Transitions"})

\* fsm.mu.Lock() at the top of an exported method: the call blocks until the
\* mutex is free, then the method's body runs.  (A Transition is called only
\* while the history is below MaxTransitions, which keeps the model finite.)
lock(t, methods) ==
  /\ pc[t] = "idle"
  /\ mu = NoThread
  /\ \E o \in methods :
       /\ o = "Transition" => Len(transitions) < MaxTransitions
       /\ op' = [op EXCEPT ![t] = o]
       /\ pc' = [pc EXCEPT ![t] = o]
  /\ mu' = t
  /\ entry' = [currentState |-> currentState, transitions |-> transitions,
              ruleset |-> ruleset]
  /\ UNCHANGED <<currentState, transitions, TransitionsV2, ruleset, targetState,
                 metadata, fromState, ok, tn, ret, clock, historyCapacity, registered,
                 committed, toStates, script, held, data, temp, newOrder, original,
                 stateType, heap, refused>>

\* a caller of any exported method of the first definition
Lock(t) == lock(t, Ops)

\* an Unlock() written before the final return only: a call that returns
\* early with an error leaves the mutex locked
unlockOnSuccess(t, kept) ==
  /\ pc[t] = "unlock"
  /\ mu' = IF op[t] = "Transition" /\ ret[t].err # NoError THEN mu ELSE NoThread
  /\ pc' = [pc EXCEPT ![t] = "idle"]
  /\ op' = [op EXCEPT ![t] = NoValue]
  /\ targetState' = [targetState EXCEPT ![t] = NoValue]
  /\ metadata' = [metadata EXCEPT ![t] = NoValue]
  /\ tn' = [tn EXCEPT ![t] = NoValue]
  /\ ret' = [ret EXCEPT ![t] = NoValue]
  /\ fromState' = [fromState EXCEPT ![t] = NoValue]
  /\ toStates' = [toStates EXCEPT ![t] = NoValue]
  /\ data' = [data EXCEPT ![t] = NoValue]
  /\ temp' = [temp EXCEPT ![t] = NoValue]
  /\ entry' = NoValue
  /\ held' = kept
  /\ UNCHANGED <<currentState, transitions, TransitionsV2, ruleset, ok, clock,
                 historyCapacity, registered, committed, script, newOrder, original,
                 stateType, heap>>

\* defer fsm.mu.Unlock(): runs after the return value is evaluated; the call
\* returns and the caller keeps what it keeps of the result (what it
\* remembers of the errors is the caller's, see Unlock and KeepError).
unlock(t, kept) ==
  /\ pc[t] = "unlock"
  /\ mu' = NoThread
  /\ pc' = [pc EXCEPT ![t] = "idle"]
  /\ op' = [op EXCEPT ![t] = NoValue]
  /\ targetState' = [targetState EXCEPT ![t] = NoValue]
  /\ metadata' = [metadata EXCEPT ![t] = NoValue]
  /\ tn' = [tn EXCEPT ![t] = NoValue]
  /\ ret' = [ret EXCEPT ![t] = NoValue]
  /\ fromState' = [fromState EXCEPT ![t] = NoValue]
  /\ toStates' = [toStates EXCEPT ![t] = NoValue]
  /\ data' = [data EXCEPT ![t] = NoValue]
  /\ temp' = [temp EXCEPT ![t] = NoValue]
  /\ entry' = NoValue
  /\ held' = kept
  /\ UNCHANGED <<currentState, transitions, TransitionsV2, ruleset, ok, clock,
                 historyCapacity, registered, committed, script, newOrder, original,
                 stateType, heap>>

\* a caller that drops the result, or uses it at once
Unlock(t) == unlock(t, held) /\ UNCHANGED refused

\* a check that moves the machine to the target when the rules permit it
CanTransitionAndMove(t) ==
  /\ pc[t] = "CanTransition"
  /\ \E target \in States :
       /\ targetState' = [targetState EXCEPT ![t] = target]
       /\ ret' = [ret EXCEPT ![t] = canTransition(currentState, target)]
       /\ currentState' = IF canTransition(currentState, target) THEN target
                          ELSE currentState
  /\ pc' = [pc EXCEPT ![t] = "unlock"]
  /\ UNCHANGED <<transitions, TransitionsV2, ruleset, mu, op, metadata,
                 fromState, ok, tn, clock, historyCapacity, registered, entry,
                 committed, toStates, script, held, data, temp, newOrder, original,
                 stateType, heap, refused>>

\* func (fsm *FSM[T]) CanTransition(targetState T) bool
CanTransition(t) ==
  /\ pc[t] = "CanTransition"
  /\ \E target \in States :
       /\ targetState' = [targetState EXCEPT ![t] = target]
       /\ ret' = [ret EXCEPT ![t] = canTransition(currentState, target)]
  /\ pc' = [pc EXCEPT ![t] = "unlock"]
  /\ UNCHANGED <<currentState, transitions, TransitionsV2, ruleset, mu, op, metadata,
                 fromState, ok, tn, clock, historyCapacity, registered, entry,
                 committed, toStates, script, held, data, temp, newOrder, original,
                 stateType, heap, refused>>

\* func (fsm *FSM[T]) AddRule(fromState T, toState ...T)
AddRule(t) ==
  /\ pc[t] = "AddRule"
  /\ \E from \in States, to \in ToLists :
       /\ RuleCount + Len(to) <= MaxRules
       /\ fromState' = [fromState EXCEPT ![t] = from]
       /\ toStates' = [toStates EXCEPT ![t] = to]
       /\ ruleset' = appendRule(ruleset, from, to)
       /\ registered' = registered \cup {<<from, to[i]>> : i \in 1..Len(to)}
  /\ pc' = [pc EXCEPT ![t] = "unlock"]
  /\ UNCHANGED <<currentState, transitions, TransitionsV2, mu, op, targetState,
                 metadata, ok, tn, ret, clock, historyCapacity, entry, committed,
                 script, held, data, temp, newOrder, original,
                 stateType, heap, refused>>

\* a parameter: the value the caller passed if the call fixed it, else any value
Argument(passed, values) == IF passed = NoValue THEN values ELSE {passed}

\* an error return that hands back the target instead of the current state
invalidTransitionReturnsTarget(cs, target) ==
  [state |-> target, err |-> {TransitionError(cs, target)}]

\* return fsm.currentState, TransitionError[T]{FromState: fsm.currentState, ToState: targetState}
invalidTransition(cs, target) ==
  [state |-> cs, err |-> {TransitionError(cs, target)}]

\* func (fsm *FSM[T]) Transition(targetState T, metadata map[string]string) (T, error)
\* lines 98-103: the validation and the error return
TransitionValidate(t) ==
  /\ pc[t] = "Transition"
  /\ \E target \in Argument(targetState[t], States),
        md \in Argument(metadata[t], MetadataValues) :
       /\ targetState' = [targetState EXCEPT ![t] = target]
       /\ metadata' = [metadata EXCEPT ![t] = md]
       /\ IF ~canTransition(currentState, target)
          THEN /\ ret' = [ret EXCEPT ![t] = invalidTransition(currentState, target)]
               /\ pc' = [pc EXCEPT ![t] = "unlock"]
          ELSE /\ ret' = ret
               /\ pc' = [pc EXCEPT ![t] = "append"]
  /\ UNCHANGED <<currentState, transitions, TransitionsV2, ruleset, mu, op, fromState,
                 ok, tn, clock, historyCapacity, registered, entry, committed,
                 toStates, script, held, data, temp, newOrder, original,
                 stateType, heap, refused>>

\* time.Now(): the clock never runs backwards
Now(c) == {n \in c..(c + 1) : n <= MaxClock}

\* a log that puts the new record in front of the older ones
TransitionPrepend(t) ==
  /\ pc[t] = "append"
  /\ \E now \in Now(clock) :
       /\ clock' = now
       /\ tn' = [tn EXCEPT ![t] = now]
       /\ transitions' =
            <<TransitionRecord(currentState, targetState[t], now, metadata[t])>>
            \o transitions
  /\ pc' = [pc EXCEPT ![t] = "commit"]
  /\ UNCHANGED <<currentState, TransitionsV2, ruleset, mu, op, targetState, metadata,
                 fromState, ok, ret, historyCapacity, registered, entry, committed,
                 toStates, script, held, data, temp, newOrder, original,
                 stateType, heap, refused>>

\* lines 105-114: tn := time.Now(); fsm.transitions = append(fsm.transitions, ...)
TransitionAppend(t) ==
  /\ pc[t] = "append"
  /\ \E now \in Now(clock) :
       /\ clock' = now
       /\ tn' = [tn EXCEPT ![t] = now]
       /\ transitions' = Append(transitions,
            TransitionRecord(currentState, targetState[t], now, metadata[t]))
  /\ pc' = [pc EXCEPT ![t] = "commit"]
  /\ UNCHANGED <<currentState, TransitionsV2, ruleset, mu, op, targetState, metadata,
                 fromState, ok, ret, historyCapacity, registered, entry, committed,
                 toStates, script, held, data, temp, newOrder, original,
                 stateType, heap, refused>>

\* a commit that forgets the assignment to fsm.currentState
TransitionCommitKeepsState(t) ==
  /\ pc[t] = "commit"
  /\ ret' = [ret EXCEPT ![t] = [state |-> currentState, err |-> NoError]]
  /\ committed' = Append(committed,
       TransitionRecord(entry.currentState, targetState[t], tn[t], metadata[t]))
  /\ pc' = [pc EXCEPT ![t] = "unlock"]
  /\ UNCHANGED <<currentState, transitions, TransitionsV2, ruleset, mu, op,
                 targetState, metadata, fromState, ok, tn, clock, historyCapacity,
                 registered, entry, toStates, script, held, data, temp, newOrder,
                 original,
                 stateType, heap, refused>>

\* lines 116-118: fsm.currentState = targetState; return fsm.currentState, nil
TransitionCommit(t) ==
  /\ pc[t] = "commit"
  /\ currentState' = targetState[t]
  /\ ret' = [ret EXCEPT ![t] = [state |-> currentState', err |-> NoError]]
  /\ committed' = Append(committed,
       TransitionRecord(entry.currentState, targetState[t], tn[t], metadata[t]))
  /\ pc' = [pc EXCEPT ![t] = "unlock"]
  /\ UNCHANGED <<transitions, TransitionsV2, ruleset, mu, op, targetState, metadata,
                 fromState, ok, tn, clock, historyCapacity, registered, entry,
                 toStates, script, held, data, temp, newOrder, original,
                 stateType, heap, refused>>

\* func (fsm *FSM[T]) CurrentState() T
CurrentState(t) ==
  /\ pc[t] = "CurrentState"
  /\ ret' = [ret EXCEPT ![t] = currentState]
  /\ pc' = [pc EXCEPT ![t] = "unlock"]
  /\ UNCHANGED <<currentState, transitions, TransitionsV2, ruleset, mu, op,
                 targetState, metadata, fromState, ok, tn, clock, historyCapacity,
                 registered, entry, committed, toStates, script, held, data, temp,
                 newOrder, original,
                 stateType, heap, refused>>

\* return fsm.transitions: the slice handed out shares the backing array
shareTransitions(src) == [array |-> "fsm.transitions", elems |-> src]

\* transitions := make([]Transition[T], len(fsm.transitions)); copy(transitions, fsm.transitions):
\* a slice over an array of its own; element i of the copy is element i of the slice
copyTransitions(src) ==
  [array |-> "make", elems |-> [i \in 1..Len(src) |-> src[i]]]

\* func (fsm *FSM[T]) Transitions() []Transition[T]
Transitions(t) ==
  /\ pc[t] = "Transitions"
  /\ ret' = [ret EXCEPT ![t] = copyTransitions(transitions)]
  /\ pc' = [pc EXCEPT ![t] = "unlock"]
  /\ UNCHANGED <<currentState, transitions, TransitionsV2, ruleset, mu, op,
                 targetState, metadata, fromState, ok, tn, clock, historyCapacity,
                 registered, entry, committed, toStates, script, held, data, temp,
                 newOrder, original,
                 stateType, heap, refused>>

Next ==
  \E t \in Threads :
    \/ Lock(t)
    \/ CanTransition(t)
    \/ AddRule(t)
    \/ TransitionValidate(t)
    \/ TransitionAppend(t)
    \/ TransitionCommit(t)
    \/ CurrentState(t)
    \/ Transitions(t)
    \/ Unlock(t)

Spec == Init /\ [][Next]_vars

\* the first definition behind the constructor call of the README
SpecCapacity == InitCapacity /\ [][Next]_vars

\* func (fsm *FSM[T]) MarshalJSON() ([]byte, error)
MarshalJSON(t) ==
  /\ pc[t] = "MarshalJSON"
  /\ ret' = [ret EXCEPT ![t] = [bytes |-> marshalExport(currentState, transitions),
                                err |-> NoError]]
  /\ pc' = [pc EXCEPT ![t] = "unlock"]
  /\ UNCHANGED <<currentState, transitions, TransitionsV2, ruleset, mu, op,
                 targetState, metadata, fromState, ok, tn, clock, historyCapacity,
                 registered, entry, committed, toStates, script, held, data, temp,
                 newOrder, original,
                 stateType, heap, refused>>

\* ------------------------------------- Test_concurrencyRaceCondition (SpecTest)
MaxRounds == 2

\* for j := 0; j < 1000; j++ { fsm.Transition(B, nil); fsm.Transition(C, nil) }
RECURSIVE goroutine(_)
goroutine(rounds) ==
  IF rounds = 0 THEN <<>> ELSE <<"B", "C">> \o goroutine(rounds - 1)

\* the FSM of a test once its AddRule calls have returned and before anything
\* else runs: fsm := NewFSM[T](A); fsm.AddRule(...); fsm.AddRule(...), and the
\* metadata maps the test has made
fixtureOf(T, rules, scripts, capacity, maps) ==
  /\ currentState = InitialState
  /\ transitions = <<>>
  /\ TransitionsV2 = <<>>
  /\ ruleset = rules
  /\ mu = NoThread
  /\ pc = [t \in Threads |-> "idle"]
  /\ op = [t \in Threads |-> NoValue]
  /\ targetState = [t \in Threads |-> NoValue]
  /\ metadata = [t \in Threads |-> NoValue]
  /\ fromState = [t \in Threads |-> NoValue]
  /\ ok = [t \in Threads |-> NoValue]
  /\ tn = [t \in Threads |-> NoValue]
  /\ ret = [t \in Threads |-> NoValue]
  /\ clock = 0
  /\ historyCapacity = capacity
  /\ registered = UNION {{<<k, rules[k][i]>> : i \in 1..Len(rules[k])} : k \in DOMAIN rules}
  /\ entry = NoValue
  /\ committed = <<>>
  /\ toStates = [t \in Threads |-> NoValue]
  /\ script = scripts
  /\ held = NilSlice
  /\ data = [t \in Threads |-> NoValue]
  /\ temp = [t \in Threads |-> NoValue]
  /\ newOrder = [t \in Threads |-> NoValue]
  /\ original = [t \in Threads |-> NoValue]
  /\ stateType = T
  /\ heap = maps
  /\ refused = {}

\* the fixture of the tests: states of type CustomStateEnum, no maps
fixture(rules, scripts, capacity) ==
  fixtureOf("CustomStateEnum", rules, scripts, capacity, <<>>)

\* lines 197-199: the FSM and its two rules, before the goroutines start
InitTest ==
  fixture(appendRule(appendRule(<<>>, "A", <<"B">>), "B", <<"C">>),
          [t \in Threads |-> goroutine(MaxRounds)], NoValue)

\* the goroutine's next call fsm.Transition(target, nil), up to fsm.mu.Lock()
GoTransition(t) ==
  /\ pc[t] = "idle"
  /\ script[t] # NoValue
  /\ script[t] # <<>>
  /\ mu = NoThread
  /\ mu' = t
  /\ op' = [op EXCEPT ![t] = "Transition"]
  /\ pc' = [pc EXCEPT ![t] = "Transition"]
  /\ targetState' = [targetState EXCEPT ![t] = Head(script[t])]
  /\ metadata' = [metadata EXCEPT ![t] = NilMetadata]
  /\ script' = [script EXCEPT ![t] = Tail(script[t])]
  /\ entry' = [currentState |-> currentState, transitions |-> transitions,
              ruleset |-> ruleset]
  /\ UNCHANGED <<currentState, transitions, TransitionsV2, ruleset, fromState, ok, tn,
                 ret, clock, historyCapacity, registered, committed, toStates, held,
                 data, temp, newOrder, original,
                 stateType, heap, refused>>

NextTest ==
  \E t \in Threads :
    \/ GoTransition(t)
    \/ TransitionValidate(t)
    \/ TransitionAppend(t)
    \/ TransitionCommit(t)
    \/ Unlock(t)

SpecTest == InitTest /\ [][NextTest]_vars

\* -------------------------------------------------- Test_transition (SpecRetry)
OpsRetry == {"AddRule", "Transition"}

\* lines 77-78: the FSM and its first rule, A->B
InitRetry ==
  fixture(appendRule(<<>>, "A", <<"B">>), [t \in Threads |-> NoValue], NoValue)

\* newState, err := fsm.Transition(test.targetState, nil): the call returns
\* and the caller's err is the error it is given; err keeps an error until
\* the next one is given
KeepError(t) ==
  /\ unlock(t, held)
  /\ refused' = IF op[t] = "Transition" /\ ret[t].err # NoError
                THEN ret[t].err
                ELSE refused

NextRetry ==
  \E t \in Threads :
    \/ lock(t, OpsRetry)
    \/ AddRule(t)
    \/ TransitionValidate(t)
    \/ TransitionAppend(t)
    \/ TransitionCommit(t)
    \/ KeepError(t)

SpecRetry == InitRetry /\ [][NextRetry]_vars

\* ------------------------- examples/struct: check, then transition (SpecAsk)
OpsAsk == {"CanTransition", "AddRule"}

\* the Transition calls still to come: those the history has room for have
\* been promised to the threads that have asked
Asked == Cardinality({u \in Threads : script[u] # <<>>})

\* the FSM with its first rule, A->B; no thread has asked anything yet
InitAsk ==
  fixture(appendRule(<<>>, "A", <<"B">>), [t \in Threads |-> <<>>], NoValue)

\* order.go line 51: canTransition := order.State.CanTransition(Picked), up
\* to fsm.mu.Lock(); other callers add rules in the meantime
AskLock(t) ==
  /\ script[t] = <<>>
  /\ Len(transitions) + Asked < MaxTransitions
  /\ lock(t, OpsAsk)

\* the call returns.  The caller of CanTransition keeps the answer in its
\* variable canTransition (ok) and goes on to call Transition with the same
\* target (order.go line 55); original[t] remembers, as a list of one, what
\* the answer was computed from.
KeepAnswer(t) ==
  /\ pc[t] = "unlock"
  /\ mu' = NoThread
  /\ pc' = [pc EXCEPT ![t] = "idle"]
  /\ ok' = [ok EXCEPT ![t] = IF op[t] = "CanTransition" THEN ret[t] ELSE NoValue]
  /\ script' = [script EXCEPT ![t] =
                  IF op[t] = "CanTransition" THEN <<targetState[t]>> ELSE script[t]]
  /\ original' = [original EXCEPT ![t] =
                    IF op[t] = "CanTransition" THEN <<entry>> ELSE NoValue]
  /\ op' = [op EXCEPT ![t] = NoValue]
  /\ targetState' = [targetState EXCEPT ![t] = NoValue]
  /\ metadata' = [metadata EXCEPT ![t] = NoValue]
  /\ tn' = [tn EXCEPT ![t] = NoValue]
  /\ ret' = [ret EXCEPT ![t] = NoValue]
  /\ fromState' = [fromState EXCEPT ![t] = NoValue]
  /\ toStates' = [toStates EXCEPT ![t] = NoValue]
  /\ entry' = NoValue
  /\ UNCHANGED <<currentState, transitions, TransitionsV2, ruleset, clock,
                 historyCapacity, registered, committed, held, data, temp, newOrder,
                 stateType, heap, refused>>

NextAsk ==
  \E t \in Threads :
    \/ AskLock(t)
    \/ CanTransition(t)
    \/ AddRule(t)
    \/ GoTransition(t)
    \/ TransitionValidate(t)
    \/ TransitionAppend(t)
    \/ TransitionCommit(t)
    \/ KeepAnswer(t)

SpecAsk == InitAsk /\ [][NextAsk]_vars

\* ------------------- Test_transition, outcomes remembered (SpecOutcome)
\* the FSM with the rules A->A and A->B
InitOutcome ==
  fixture(appendRule(<<>>, "A", <<"A", "B">>), [t \in Threads |-> NoValue], NoValue)

\* newState, err := fsm.Transition(test.targetState, metadata): the call
\* returns; original[t] remembers, as a list of one, the last Transition of
\* t: the current state, rule set and history it found, its arguments, and
\* the error and new current state it left
Remember(t) ==
  /\ pc[t] = "unlock"
  /\ mu' = NoThread
  /\ pc' = [pc EXCEPT ![t] = "idle"]
  /\ original' = [original EXCEPT ![t] =
       IF op[t] = "Transition"
       THEN <<[currentState |-> entry.currentState, ruleset |-> entry.ruleset,
               transitions |-> entry.transitions, targetState |-> targetState[t],
               metadata |-> metadata[t], err |-> ret[t].err, newState |-> currentState]>>
       ELSE original[t]]
  /\ op' = [op EXCEPT ![t] = NoValue]
  /\ targetState' = [targetState EXCEPT ![t] = NoValue]
  /\ metadata' = [metadata EXCEPT ![t] = NoValue]
  /\ tn' = [tn EXCEPT ![t] = NoValue]
  /\ ret' = [ret EXCEPT ![t] = NoValue]
  /\ fromState' = [fromState EXCEPT ![t] = NoValue]
  /\ toStates' = [toStates EXCEPT ![t] = NoValue]
  /\ entry' = NoValue
  /\ UNCHANGED <<currentState, transitions, TransitionsV2, ruleset, ok, clock,
                 historyCapacity, registered, committed, script, held, data, temp,
                 newOrder, stateType, heap, refused>>

NextOutcome ==
  \E t \in Threads :
    \/ lock(t, {"Transition"})
    \/ TransitionValidate(t)
    \/ TransitionAppend(t)
    \/ TransitionCommit(t)
    \/ Remember(t)

SpecOutcome == InitOutcome /\ [][NextOutcome]_vars

\* ------------------------------------------------ FSM.String (SpecString)
\* fmt's %v of a []T whose elements print as their text: "[B C]"
RECURSIVE joined(_, _)
joined(list, i) ==
  IF i > Len(list) THEN ""
  ELSE (IF i > 1 THEN " " ELSE "") \o list[i] \o joined(list, i + 1)

formatSlice(list) == "[" \o joined(list, 1) \o "]"

\* fmt's %v of a map[string]string: the nil map prints as map[]
formatMap(md) ==
  IF md = NilMetadata THEN "map[]" ELSE "map[requested_by:Mahmoud]"

\* fmt's %v of a *time.Time inside a struct: the address of the tn of the
\* record's Transition call, one allocation per record
formatPointer(i) == "0xc00001" \o ToString(i)

\* fmt.Sprintf("\t%v -> %v\n", fromState, toStates)
formatRule(from, to) == "\t" \o from \o " -> " \o formatSlice(to)

\* fmt.Sprintf("\t%v\n", transition): the fields of the struct in braces
formatTransition(record, i) ==
  "\t{" \o record.FromState \o " " \o record.ToState \o " " \o formatPointer(i)
  \o " " \o formatMap(record.Metadata) \o "}"

\* func (fsm *FSM[T]) String() string, as the sequence of its lines; the
\* range over fsm.ruleset visits the keys in any order
String(t) ==
  /\ pc[t] = "String"
  /\ \E order \in {o \in [1..Cardinality(DOMAIN ruleset) -> DOMAIN ruleset] :
                    \A i, j \in DOMAIN o : i # j => o[i] # o[j]} :
       ret' = [ret EXCEPT ![t] =
                 <<"Current State: " \o currentState, "Rules:">>
                 \o [i \in 1..Len(order) |-> formatRule(order[i], ruleset[order[i]])]
                 \o <<"Transitions:">>
                 \o [i \in 1..Len(transitions) |-> formatTransition(transitions[i], i)]]
  /\ pc' = [pc EXCEPT ![t] = "unlock"]
  /\ UNCHANGED <<currentState, transitions, TransitionsV2, ruleset, mu, op,
                 targetState, metadata, fromState, ok, tn, clock, historyCapacity,
                 registered, entry, committed, toStates, script, held, data, temp,
                 newOrder, original, stateType, heap, refused>>

\* every exported method of the first definition
OpsString == {"CanTransition", "AddRule", "Transition", "CurrentState",
              "Transitions", "MarshalJSON", "String"}

\* fsm := NewFSM(A); fsm.AddRule(A, B)
InitString ==
  fixture(appendRule(<<>>, "A", <<"B">>), [t \in Threads |-> NoValue], NoValue)

NextString ==
  \E t \in Threads :
    \/ lock(t, OpsString)
    \/ CanTransition(t)
    \/ AddRule(t)
    \/ TransitionValidate(t)
    \/ TransitionAppend(t)
    \/ TransitionCommit(t)
    \/ CurrentState(t)
    \/ Transitions(t)
    \/ MarshalJSON(t)
    \/ String(t)
    \/ Unlock(t)

SpecString == InitString /\ [][NextString]_vars

\* ------------------------- the wait for the mutex, fair scheduling (SpecFair)
\* SpecFair follows where every call is and what it does to the FSM, not what
\* it answers: the callers drop the results, and no frame of a call is kept
\* beyond the arguments a later statement reads.  Its goroutines call any of
\* the seven methods of the first definition: Transition with any target and
\* nil metadata, as the race test does, and AddRule(B, C), the test's second
\* rule.

\* the calls of method o that have started and not returned
Pending(o) == Cardinality({u \in Threads : op[u] = o})

\* a goroutine calls an exported method: it is inside the call from here on,
\* and the first statement of every method is fsm.mu.Lock().  (The calls of
\* Transition and of AddRule are counted, which keeps the model finite.)
Call(t) ==
  /\ pc[t] = "idle"
  /\ \E o \in OpsString :
       /\ o = "Transition" => Len(transitions) + Pending(o) < MaxTransitions
       /\ o = "AddRule" => RuleCount + Pending(o) < MaxRules
       /\ op' = [op EXCEPT ![t] = o]
  /\ pc' = [pc EXCEPT ![t] = "lock"]
  /\ UNCHANGED <<currentState, transitions, TransitionsV2, ruleset, mu, targetState,
                 metadata, fromState, ok, tn, ret, clock, historyCapacity, registered,
                 entry, committed, toStates, script, held, data, temp, newOrder,
                 original, stateType, heap, refused>>

\* a Lock() that a goroutine repeats once it holds the mutex: sync.Mutex is
\* not reentrant, and the second Lock() never returns
muLockTwice(t) ==
  /\ pc[t] = "lock"
  /\ mu = NoThread
  /\ mu' = t
  /\ pc' = [pc EXCEPT ![t] = "lock"]
  /\ UNCHANGED <<currentState, transitions, TransitionsV2, ruleset, op, targetState,
                 metadata, fromState, ok, tn, ret, clock, historyCapacity, registered,
                 entry, committed, toStates, script, held, data, temp, newOrder,
                 original, stateType, heap, refused>>

\* fsm.mu.Lock() returns: the mutex was free and the caller holds it now
muLock(t) ==
  /\ pc[t] = "lock"
  /\ mu = NoThread
  /\ mu' = t
  /\ pc' = [pc EXCEPT ![t] = op[t]]
  /\ UNCHANGED <<currentState, transitions, TransitionsV2, ruleset, op, targetState,
                 metadata, fromState, ok, tn, ret, clock, historyCapacity, registered,
                 entry, committed, toStates, script, held, data, temp, newOrder,
                 original, stateType, heap, refused>>

\* the body of a method that reads and returns: CanTransition (line 65),
\* CurrentState (line 126), Transitions (lines 134-139), MarshalJSON
\* (lines 147-157), String (lines 165-181); its loops run over a slice or a
\* map that nothing changes while the mutex is held
readAndReturn(t) ==
  /\ pc[t] \in {"CanTransition", "CurrentState", "Transitions", "MarshalJSON", "String"}
  /\ pc' = [pc EXCEPT ![t] = "unlock"]
  /\ UNCHANGED <<currentState, transitions, TransitionsV2, ruleset, mu, op, targetState,
                 metadata, fromState, ok, tn, ret, clock, historyCapacity, registered,
                 entry, committed, toStates, script, held, data, temp, newOrder,
                 original, stateType, heap, refused>>

\* line 89 of AddRule, called as fsm.AddRule(B, C): the append to the rule list
addRuleAndReturn(t) ==
  /\ pc[t] = "AddRule"
  /\ ruleset' = appendRule(ruleset, "B", <<"C">>)
  /\ pc' = [pc EXCEPT ![t] = "unlock"]
  /\ UNCHANGED <<currentState, transitions, TransitionsV2, mu, op, targetState,
                 metadata, fromState, ok, tn, ret, clock, historyCapacity, registered,
                 entry, committed, toStates, script, held, data, temp, newOrder,
                 original, stateType, heap, refused>>

\* lines 98-103 of Transition: the validation; a refused call goes to its
\* return statement, the error return
validateOrReturn(t) ==
  /\ pc[t] = "Transition"
  /\ \E target \in States :
       /\ targetState' = [targetState EXCEPT ![t] = target]
       /\ metadata' = [metadata EXCEPT ![t] = NilMetadata]
       /\ pc' = [pc EXCEPT ![t] = IF canTransition(currentState, target)
                                  THEN "append" ELSE "unlock (error)"]
  /\ UNCHANGED <<currentState, transitions, TransitionsV2, ruleset, mu, op, fromState,
                 ok, tn, ret, clock, historyCapacity, registered, entry, committed,
                 toStates, script, held, data, temp, newOrder, original, stateType,
                 heap, refused>>

\* lines 105-118 of Transition: the record, the new state, the return
trackAndReturn(t) ==
  /\ pc[t] = "append"
  /\ \E now \in Now(clock) :
       /\ clock' = now
       /\ transitions' = Append(transitions,
            TransitionRecord(currentState, targetState[t], now, metadata[t]))
  /\ currentState' = targetState[t]
  /\ pc' = [pc EXCEPT ![t] = "unlock"]
  /\ UNCHANGED <<TransitionsV2, ruleset, mu, op, targetState, metadata, fromState, ok,
                 tn, ret, historyCapacity, registered, entry, committed, toStates,
                 script, held, data, temp, newOrder, original, stateType, heap,
                 refused>>

\* an Unlock() written before the final return only: the error return of
\* Transition leaves the mutex locked
muUnlockOnSuccess(t) ==
  /\ pc[t] \in {"unlock", "unlock (error)"}
  /\ mu' = IF pc[t] = "unlock" THEN NoThread ELSE mu
  /\ pc' = [pc EXCEPT ![t] = "idle"]
  /\ op' = [op EXCEPT ![t] = NoValue]
  /\ targetState' = [targetState EXCEPT ![t] = NoValue]
  /\ metadata' = [metadata EXCEPT ![t] = NoValue]
  /\ UNCHANGED <<currentState, transitions, TransitionsV2, ruleset, fromState, ok, tn,
                 ret, clock, historyCapacity, registered, entry, committed, toStates,
                 script, held, data, temp, newOrder, original, stateType, heap,
                 refused>>

\* defer fsm.mu.Unlock(): it runs at every return of the method, the error
\* return of Transition included, and the call is over
muUnlock(t) ==
  /\ pc[t] \in {"unlock", "unlock (error)"}
  /\ mu' = NoThread
  /\ pc' = [pc EXCEPT ![t] = "idle"]
  /\ op' = [op EXCEPT ![t] = NoValue]
  /\ targetState' = [targetState EXCEPT ![t] = NoValue]
  /\ metadata' = [metadata EXCEPT ![t] = NoValue]
  /\ UNCHANGED <<currentState, transitions, TransitionsV2, ruleset, fromState, ok, tn,
                 ret, clock, historyCapacity, registered, entry, committed, toStates,
                 script, held, data, temp, newOrder, original, stateType, heap,
                 refused>>

\* the statements of a method after its Lock(): none of them waits for anything
Body(t) ==
  \/ readAndReturn(t)
  \/ addRuleAndReturn(t)
  \/ validateOrReturn(t)
  \/ trackAndReturn(t)
  \/ muUnlock(t)

NextFair ==
  \E t \in Threads :
    \/ Call(t)
    \/ muLock(t)
    \/ Body(t)

\* the Go scheduler runs every runnable goroutine, and a sync.Mutex that is
\* released again and again is handed to each of its waiters (starvation
\* mode); nothing makes a goroutine call a method.  Every step of a call
\* changes the caller's pc.
Fairness ==
  \A t \in Threads : WF_pc(Body(t)) /\ SF_pc(muLock(t))

\* fsm := NewFSM(A); fsm.AddRule(A, B): the race test before its second rule
InitFair ==
  fixture(appendRule(<<>>, "A", <<"B">>), [t \in Threads |-> NoValue], NoValue)

SpecFair == InitFair /\ [][NextFair]_vars /\ Fairness

\* --------------------------------------------- Test_marshalJSON (SpecMarshal)
OpsMarshal == {"Transition", "MarshalJSON"}

\* lines 222-224: the FSM and its two rules
InitMarshal ==
  fixture(appendRule(appendRule(<<>>, "A", <<"B">>), "B", <<"C">>),
          [t \in Threads |-> NoValue], NoValue)

NextMarshal ==
  \E t \in Threads :
    \/ lock(t, OpsMarshal)
    \/ TransitionValidate(t)
    \/ TransitionAppend(t)
    \/ TransitionCommit(t)
    \/ MarshalJSON(t)
    \/ Unlock(t)

SpecMarshal == InitMarshal /\ [][NextMarshal]_vars

\* ------ examples/struct/order.go (SpecJSON), Test_unmarshalJSON (SpecDecode)
OpsJSON == {"Transition", "MarshalJSON"}

OpsDecode == {"Transition", "MarshalJSON", "UnmarshalJSON"}

\* fsm := NewFSM(A, capacity) with the two rules of the tests
InitJSON ==
  \E capacity \in 0..MaxCapacity :
    fixture(appendRule(appendRule(<<>>, "A", <<"B">>), "B", <<"C">>),
            [t \in Threads |-> NoValue], capacity)

\* the documents handed to the decoder: the shape of the test's jsonData (one
\* transition with metadata), a history of two, a history the rules do not
\* allow, a text that is no JSON, and a document of the wrong shape
sampleTransition(from, to, md) ==
  jsonObject([from_state |-> jsonString(from), to_state |-> jsonString(to),
              timestamp |-> jsonString(formatRFC3339(0)), metadata |-> md])

sampleDocument(state, items) ==
  jsonObject([current_state |-> jsonString(state), transitions |-> jsonArray(items)])

sampleDocuments ==
  {sampleDocument("B", <<sampleTransition("A", "B", jsonObject("requested_by=Mahmoud"))>>),
   sampleDocument("C", <<sampleTransition("A", "B", jsonNull),
                         sampleTransition("B", "C", jsonObject("requested_by=Mahmoud"))>>),
   sampleDocument("A", <<sampleTransition("C", "A", jsonNull)>>),
   NotJSON,
   jsonObject([current_state |-> jsonString("B"), transitions |-> jsonString("B")])}

\* decode, first half: the document is parsed into the staging area; a
\* malformed document is reported and the FSM is not touched
UnmarshalJSON(t) ==
  /\ pc[t] = "UnmarshalJSON"
  /\ \E document \in sampleDocuments :
       /\ data' = [data EXCEPT ![t] = document]
       /\ temp' = [temp EXCEPT ![t] = unmarshalExport(document)]
       /\ IF malformed(document)
          THEN /\ ret' = [ret EXCEPT ![t] = [err |-> {"MalformedDocument"}]]
               /\ pc' = [pc EXCEPT ![t] = "unlock"]
          ELSE /\ ret' = ret
               /\ pc' = [pc EXCEPT ![t] = "replaceState"]
  /\ UNCHANGED <<currentState, transitions, TransitionsV2, ruleset, mu, op,
                 targetState, metadata, fromState, ok, tn, clock, historyCapacity,
                 registered, entry, committed, toStates, script, held, newOrder,
                 original,
                 stateType, heap, refused>>

\* decode, second half: currentState is replaced by the document's
replaceState(t) ==
  /\ pc[t] = "replaceState"
  /\ currentState' = temp[t].CurrentState
  /\ pc' = [pc EXCEPT ![t] = "replaceHistory"]
  /\ UNCHANGED <<transitions, TransitionsV2, ruleset, mu, op, targetState, metadata,
                 fromState, ok, tn, ret, clock, historyCapacity, registered, entry,
                 committed, toStates, script, held, data, temp, newOrder, original,
                 stateType, heap, refused>>

\* and the history by the document's, cut to the capacity (the record of
\* committed transitions starts afresh with the new history)
replaceHistory(t) ==
  /\ pc[t] = "replaceHistory"
  /\ transitions' = truncate(temp[t].Transitions, historyCapacity)
  /\ committed' = <<>>
  /\ ret' = [ret EXCEPT ![t] = [err |-> NoError]]
  /\ pc' = [pc EXCEPT ![t] = "unlock"]
  /\ UNCHANGED <<currentState, TransitionsV2, ruleset, mu, op, targetState, metadata,
                 fromState, ok, tn, clock, historyCapacity, registered, entry,
                 toStates, script, held, data, temp, newOrder, original,
                 stateType, heap, refused>>

\* j, err := json.Marshal(order.State): the call returns and the caller keeps j
KeepDocument(t) ==
  /\ pc[t] = "unlock"
  /\ op[t] = "MarshalJSON"
  /\ mu' = NoThread
  /\ data' = [data EXCEPT ![t] = ret[t].bytes]
  /\ original' = [original EXCEPT ![t] =
                    [currentState |-> currentState, transitions |-> transitions,
                     ruleset |-> ruleset]]
  /\ ret' = [ret EXCEPT ![t] = NoValue]
  /\ entry' = NoValue
  /\ pc' = [pc EXCEPT ![t] = "newOrder"]
  /\ UNCHANGED <<currentState, transitions, TransitionsV2, ruleset, op, targetState,
                 metadata, fromState, ok, tn, clock, historyCapacity, registered,
                 committed, toStates, script, held, temp, newOrder,
                 stateType, heap, refused>>

\* decoding into an FSM: state and history come from the document, the rest is
\* the FSM's own
unmarshalInto(fsm, document) ==
  IF malformed(document)
  THEN [fsm EXCEPT !.err = {"MalformedDocument"}]
  ELSE [fsm EXCEPT !.currentState = unmarshalExport(document).CurrentState,
                   !.transitions = truncate(unmarshalExport(document).Transitions,
                                            fsm.capacity)]

\* newOrder := &Order{State: NewFSM(Created, 10)}; err = json.Unmarshal(j, newOrder.State)
UnmarshalNewOrder(t) ==
  /\ pc[t] = "newOrder"
  /\ newOrder' = [newOrder EXCEPT ![t] =
                    unmarshalInto([currentState |-> InitialState, transitions |-> <<>>,
                                   ruleset |-> <<>>, capacity |-> historyCapacity,
                                   err |-> NoError],
                                  data[t])]
  /\ pc' = [pc EXCEPT ![t] = "decoded"]
  /\ UNCHANGED <<currentState, transitions, TransitionsV2, ruleset, mu, op,
                 targetState, metadata, fromState, ok, tn, ret, clock,
                 historyCapacity, registered, entry, committed, toStates, script,
                 held, data, temp, original,
                 stateType, heap, refused>>

\* the caller is done with newOrder
DropNewOrder(t) ==
  /\ pc[t] = "decoded"
  /\ pc' = [pc EXCEPT ![t] = "idle"]
  /\ op' = [op EXCEPT ![t] = NoValue]
  /\ data' = [data EXCEPT ![t] = NoValue]
  /\ newOrder' = [newOrder EXCEPT ![t] = NoValue]
  /\ original' = [original EXCEPT ![t] = NoValue]
  /\ UNCHANGED <<currentState, transitions, TransitionsV2, ruleset, mu, targetState,
                 metadata, fromState, ok, tn, ret, clock, historyCapacity,
                 registered, entry, committed, toStates, script, held, temp,
                 stateType, heap, refused>>

NextJSON ==
  \E t \in Threads :
    \/ lock(t, OpsJSON)
    \/ TransitionValidate(t)
    \/ TransitionAppend(t)
    \/ TransitionCommit(t)
    \/ MarshalJSON(t)
    \/ KeepDocument(t)
    \/ UnmarshalNewOrder(t)
    \/ DropNewOrder(t)
    \/ Unlock(t)

SpecJSON == InitJSON /\ [][NextJSON]_vars

NextDecode ==
  \E t \in Threads :
    \/ lock(t, OpsDecode)
    \/ TransitionValidate(t)
    \/ TransitionAppend(t)
    \/ TransitionCommit(t)
    \/ MarshalJSON(t)
    \/ UnmarshalJSON(t)
    \/ replaceState(t)
    \/ replaceHistory(t)
    \/ Unlock(t)

SpecDecode == InitJSON /\ [][NextDecode]_vars

\* ------------- documents of one FSM under different rule sets (SpecRules)
OpsRules == {"AddRule", "MarshalJSON"}

\* fsm.AddRule(A, B): the first rule of the tests
FirstRules == appendRule(<<>>, "A", <<"B">>)

\* fsm := NewFSM(A); fsm.AddRule(A, B); the first caller goes on to call
\* Transition(B, nil) and Transition(C, nil), and every caller may add rules
\* and marshal at any time
InitRules ==
  fixture(FirstRules, [t \in Threads |-> IF t = 1 THEN goroutine(1) ELSE <<>>],
          NoValue)

\* the caller is done with the document it kept
DropDocument(t) ==
  /\ pc[t] = "newOrder"
  /\ pc' = [pc EXCEPT ![t] = "idle"]
  /\ op' = [op EXCEPT ![t] = NoValue]
  /\ data' = [data EXCEPT ![t] = NoValue]
  /\ original' = [original EXCEPT ![t] = NoValue]
  /\ UNCHANGED <<currentState, transitions, TransitionsV2, ruleset, mu, targetState,
                 metadata, fromState, ok, tn, ret, clock, historyCapacity,
                 registered, entry, committed, toStates, script, held, temp,
                 newOrder, stateType, heap, refused>>

\* one caller at a time keeps a document made under the first rules, to
\* compare the documents made under later rules with
KeepOneDocument(t) ==
  /\ ruleset = FirstRules
  /\ \A u \in Threads : pc[u] # "newOrder"
  /\ KeepDocument(t)

NextRules ==
  \E t \in Threads :
    \/ lock(t, OpsRules)
    \/ AddRule(t)
    \/ GoTransition(t)
    \/ TransitionValidate(t)
    \/ TransitionAppend(t)
    \/ TransitionCommit(t)
    \/ MarshalJSON(t)
    \/ KeepOneDocument(t)
    \/ DropDocument(t)
    \/ Unlock(t)

SpecRules == InitRules /\ [][NextRules]_vars

\* ------------------------------ a caller that keeps the slice (SpecCopy)
OpsCopy == {"Transition", "Transitions"}

\* Benchmark_accessTransitions, lines 365-367: the rules A->B and B->A
InitCopy ==
  fixture(appendRule(appendRule(<<>>, "A", <<"B">>), "B", <<"A">>),
          [t \in Threads |-> NoValue], NoValue)

\* transitions := fsm.Transitions(): the caller keeps the returned slice
KeepTransitions(t) ==
  /\ op[t] = "Transitions"
  /\ unlock(t, ret[t])
  /\ UNCHANGED refused

\* a record no Transition of the model can log
ForgedRecord == TransitionRecord("C", "A", 0, "forged")

\* what the caller's writes leave in the slice: an element replaced, the
\* first two exchanged, the first removed by append(s[:0], s[1:]...), or an
\* element appended
Mutations(elems) ==
  {[elems EXCEPT ![i] = ForgedRecord] : i \in 1..Len(elems)}
  \cup (IF Len(elems) < MaxTransitions THEN {Append(elems, ForgedRecord)} ELSE {})
  \cup (IF Len(elems) >= 2
        THEN {[elems EXCEPT ![1] = elems[2], ![2] = elems[1]]}
        ELSE {})
  \cup (IF Len(elems) >= 1 THEN {Tail(elems)} ELSE {})

\* the array behind a slice after the caller's writes: the elements the
\* slice still covers are the written ones, an element past its end (after a
\* removal) keeps what the shift left there, the rest is untouched
written(array, elems) ==
  [i \in 1..Len(array) |-> IF i <= Len(elems) THEN elems[i] ELSE array[i]]

\* the caller writes to the slice it keeps; the writes land in fsm.transitions
\* if and only if both slices share one backing array
CallerMutates ==
  /\ \E elems \in Mutations(held.elems) \ {held.elems} :
       /\ held' = [held EXCEPT !.elems = elems]
       /\ transitions' = IF held.array = "fsm.transitions"
                          THEN written(transitions, elems)
                          ELSE transitions
  /\ UNCHANGED <<currentState, TransitionsV2, ruleset, mu, pc, op, targetState,
                 metadata, fromState, ok, tn, ret, clock, historyCapacity, registered,
                 entry, committed, toStates, script, data, temp, newOrder, original,
                 stateType, heap, refused>>

NextCopy ==
  \/ \E t \in Threads :
       \/ lock(t, OpsCopy)
       \/ TransitionValidate(t)
       \/ TransitionAppend(t)
       \/ TransitionCommit(t)
       \/ Transitions(t)
       \/ KeepTransitions(t)
       \/ Unlock(t)
  \/ CallerMutates

SpecCopy == InitCopy /\ [][NextCopy]_vars

\* ------------------------------ Test_transitionTracking (SpecTracking)
\* A Go map value is a reference: Transition stores the map it is passed
\* (line 113) and copy() copies the Transition structs, each with its map
\* reference (line 137).  Here a metadata argument is the name of a map of
\* heap, and a record's Metadata field holds that name.
OpsTracking == {"Transitions"}

\* lines 114-117 and 127-130: metadata1 and metadata2
TrackingMaps ==
  [m \in {"metadata1", "metadata2"} |->
     IF m = "metadata1" THEN "requested_by=Mahmoud" ELSE "requested_by=John"]

\* what a caller may leave in a map it writes to
MapContents == {"requested_by=Mahmoud", "requested_by=John"}

\* lines 110-112: the FSM and its two rules
InitTracking ==
  fixtureOf("CustomStateEnum",
            appendRule(appendRule(<<>>, "A", <<"B">>), "B", <<"C">>),
            [t \in Threads |-> NoValue], NoValue, TrackingMaps)

\* _, err := fsm.Transition(target, metadata1), up to fsm.mu.Lock(): the
\* caller passes one of its maps
TransitionTracking(t) ==
  /\ pc[t] = "idle"
  /\ mu = NoThread
  /\ Len(transitions) < MaxTransitions
  /\ mu' = t
  /\ op' = [op EXCEPT ![t] = "Transition"]
  /\ pc' = [pc EXCEPT ![t] = "Transition"]
  /\ \E m \in DOMAIN heap : metadata' = [metadata EXCEPT ![t] = m]
  /\ entry' = [currentState |-> currentState, transitions |-> transitions,
              ruleset |-> ruleset]
  /\ UNCHANGED <<currentState, transitions, TransitionsV2, ruleset, targetState,
                 fromState, ok, tn, ret, clock, historyCapacity, registered,
                 committed, toStates, script, held, data, temp, newOrder, original,
                 stateType, heap, refused>>

\* metadata1["requested_by"] = ...: the caller writes to a map it made, after
\* it may have passed it to Transition
CallerWritesArgument ==
  /\ \E m \in DOMAIN heap, content \in MapContents :
       /\ content # heap[m]
       /\ heap' = [heap EXCEPT ![m] = content]
  /\ UNCHANGED <<currentState, transitions, TransitionsV2, ruleset, mu, pc, op,
                 targetState, metadata, fromState, ok, tn, ret, clock,
                 historyCapacity, registered, entry, committed, toStates, script,
                 held, data, temp, newOrder, original, stateType, refused>>

\* fsm.Transitions()[i].Metadata["requested_by"] = ...: the caller writes to
\* the map of a record of the slice it keeps
CallerWritesReturned ==
  /\ \E i \in 1..Len(held.elems), content \in MapContents :
       /\ held.elems[i].Metadata \in DOMAIN heap
       /\ content # heap[held.elems[i].Metadata]
       /\ heap' = [heap EXCEPT ![held.elems[i].Metadata] = content]
  /\ UNCHANGED <<currentState, transitions, TransitionsV2, ruleset, mu, pc, op,
                 targetState, metadata, fromState, ok, tn, ret, clock,
                 historyCapacity, registered, entry, committed, toStates, script,
                 held, data, temp, newOrder, original, stateType, refused>>

NextTracking ==
  \/ \E t \in Threads :
       \/ TransitionTracking(t)
       \/ lock(t, OpsTracking)
       \/ TransitionValidate(t)
       \/ TransitionAppend(t)
       \/ TransitionCommit(t)
       \/ Transitions(t)
       \/ KeepTransitions(t)
       \/ Unlock(t)
  \/ CallerWritesArgument
  \/ CallerWritesReturned

SpecTracking == InitTracking /\ [][NextTracking]_vars

\* ----------------------------------------------------------------- utils.go
\* the state types of the tests and examples: string itself, a struct with a
\* String() method (OrderState of examples/struct), a named string type
\* without one (CustomStateEnum of the tests) and a struct without one
\* (CustomStruct of the utils tests)
StateTypes == {"string", "OrderState", "CustomStateEnum", "CustomStruct"}

\* an interface{} value: its dynamic type and the value
box(T, v) == [type |-> T, value |-> v]

\* func (s OrderState) String() string: "%s:%s:v%d" of Name, Group, Version
StringMethod(t) == t.value \o ":dropship:v1"

\* fmt.Sprintf("%v", t) of a value without a String() method
Sprintf(t) == IF t.type = "CustomStruct" THEN "{" \o t.value \o "}" ELSE t.value

\* a check that takes every type for displayable
stringableAlways(t) == TRUE

\* func stringable(t interface{}) bool: t.(string) holds for the type string
\* only, t.(fmt.Stringer) for a type with a String() method
stringable(t) ==
  IF t.type = "string" THEN TRUE
  ELSE IF t.type = "OrderState" THEN TRUE
  ELSE FALSE

\* func toString(t interface{}) string
toString(t) ==
  IF t.type = "string" THEN t.value
  ELSE IF t.type = "OrderState" THEN StringMethod(t)
  ELSE Sprintf(t)

\* ------------------------------ TestStringable, TestToString (SpecUtils)
\* the input column of the tests' tables: a value of each type
Inputs == {box(T, v) : T \in StateTypes, v \in States}

OpsUtils == {"stringable", "toString"}

\* tests := []struct{ input interface{}; expected ... }{...}: each test
\* function has its input before it; there is no FSM to speak of
InitUtils ==
  \E tests \in [Threads -> Inputs] :
    fixture(<<>>, [t \in Threads |-> <<tests[t]>>], NoValue)

\* for _, test := range tests {
RangeTests(t) ==
  /\ pc[t] = "idle"
  /\ script[t] # <<>>
  /\ \E f \in OpsUtils :
       /\ op' = [op EXCEPT ![t] = f]
       /\ pc' = [pc EXCEPT ![t] = f]
  /\ UNCHANGED <<currentState, transitions, TransitionsV2, ruleset, mu, targetState,
                 metadata, fromState, ok, tn, ret, clock, historyCapacity, registered,
                 entry, committed, toStates, script, held, data, temp, newOrder,
                 original, stateType, heap, refused>>

\* actual := stringable(test.input)
TestStringable(t) ==
  /\ pc[t] = "stringable"
  /\ ret' = [ret EXCEPT ![t] = stringable(Head(script[t]))]
  /\ pc' = [pc EXCEPT ![t] = "compare"]
  /\ UNCHANGED <<currentState, transitions, TransitionsV2, ruleset, mu, op,
                 targetState, metadata, fromState, ok, tn, clock, historyCapacity,
                 registered, entry, committed, toStates, script, held, data, temp,
                 newOrder, original, stateType, heap, refused>>

\* actual := toString(test.input)
TestToString(t) ==
  /\ pc[t] = "toString"
  /\ ret' = [ret EXCEPT ![t] = toString(Head(script[t]))]
  /\ pc' = [pc EXCEPT ![t] = "compare"]
  /\ UNCHANGED <<currentState, transitions, TransitionsV2, ruleset, mu, op,
                 targetState, metadata, fromState, ok, tn, clock, historyCapacity,
                 registered, entry, committed, toStates, script, held, data, temp,
                 newOrder, original, stateType, heap, refused>>

\* if actual != test.expected { t.Errorf(...) } and the next round of the loop
CompareExpected(t) ==
  /\ pc[t] = "compare"
  /\ script' = [script EXCEPT ![t] = Tail(script[t])]
  /\ ret' = [ret EXCEPT ![t] = NoValue]
  /\ op' = [op EXCEPT ![t] = NoValue]
  /\ pc' = [pc EXCEPT ![t] = "idle"]
  /\ UNCHANGED <<currentState, transitions, TransitionsV2, ruleset, mu, targetState,
                 metadata, fromState, ok, tn, clock, historyCapacity, registered,
                 entry, committed, toStates, held, data, temp, newOrder, original,
                 stateType, heap, refused>>

NextUtils ==
  \E t \in Threads :
    \/ RangeTests(t)
    \/ TestStringable(t)
    \/ TestToString(t)
    \/ CompareExpected(t)

SpecUtils == InitUtils /\ [][NextUtils]_vars

\* ------------------------------------------------- diagrams (spec 4.4)
\* src/ holds the callers of the diagram methods (examples/struct/order.go
\* 144-158) and their documentation (README.md 96-149), not the methods; the
\* definitions of this section follow section 4.4 of the specification.  A
\* diagram is the sequence of its lines.

\* the orders in which a range over a map with the keys S may visit them
Orders(S) ==
  {order \in [1..Cardinality(S) -> S] :
     \A i, j \in 1..Cardinality(S) : i # j => order[i] # order[j]}

\* node line `<state>;`
nodeLine(T, state) == toString(box(T, state)) \o ";"

\* edge line `<from> --> <to>;`
edgeLine(T, from, to) ==
  toString(box(T, from)) \o " --> " \o toString(box(T, to)) \o ";"

\* edge line `<from> -->|<seq>| <to>;`
historyEdgeLine(T, from, seq, to) ==
  toString(box(T, from)) \o " -->|" \o ToString(seq) \o "| " \o toString(box(T, to)) \o ";"

\* the edge lines of the from-states order[i..], each with its targets in the
\* order of its list
RECURSIVE ruleEdges(_, _, _, _)
ruleEdges(T, rules, order, i) ==
  IF i > Len(order) THEN <<>>
  ELSE [j \in 1..Len(rules[order[i]]) |-> edgeLine(T, order[i], rules[order[i]][j])]
       \o ruleEdges(T, rules, order, i + 1)

\* a rules diagram that also declares a node for the targets of a from-state
rulesDiagramAllNodes(T, rules, nodes, edges) ==
  <<"graph LR;">>
  \o [i \in 1..Len(nodes) |-> nodeLine(T, nodes[i])]
  \o [j \in 1..Len(rules[nodes[1]]) |-> nodeLine(T, rules[nodes[1]][j])]
  \o ruleEdges(T, rules, edges, 1)

\* renderRulesDiagram: `graph LR;`, a node line per from-state key, an edge
\* line per (from, to) pair
rulesDiagram(T, rules, nodes, edges) ==
  <<"graph LR;">>
  \o [i \in 1..Len(nodes) |-> nodeLine(T, nodes[i])]
  \o ruleEdges(T, rules, edges, 1)

\* the states that occur in the history, as from-state or as to-state
historyStates(records) ==
  {records[i].FromState : i \in 1..Len(records)}
  \cup {records[i].ToState : i \in 1..Len(records)}

\* a history diagram that numbers its edges from 0
historyDiagramFromZero(T, records, nodes) ==
  <<"graph TD;">>
  \o [i \in 1..Len(nodes) |-> nodeLine(T, nodes[i])]
  \o [i \in 1..Len(records) |->
        historyEdgeLine(T, records[i].FromState, i - 1, records[i].ToState)]

\* renderHistoryDiagram: `graph TD;`, a node line per state of the history,
\* an edge line per record, oldest first, numbered from 1
historyDiagram(T, records, nodes) ==
  <<"graph TD;">>
  \o [i \in 1..Len(nodes) |-> nodeLine(T, nodes[i])]
  \o [i \in 1..Len(records) |->
        historyEdgeLine(T, records[i].FromState, i, records[i].ToState)]

\* the result of a rendering that fails: no text and the error
diagramError(err) == [text |-> <<>>, err |-> {err}]

\* renderRulesDiagram(fsm) -> (text, Error?)
GenerateMermaidRulesDiagram(t) ==
  /\ pc[t] = "GenerateMermaidRulesDiagram"
  /\ IF ~stringable(box(stateType, currentState))
     THEN ret' = [ret EXCEPT ![t] = diagramError("UnsupportedDisplayType")]
     ELSE IF DOMAIN ruleset = {}
     THEN ret' = [ret EXCEPT ![t] = diagramError("EmptyRuleSet")]
     ELSE \E nodes \in Orders(DOMAIN ruleset), edges \in Orders(DOMAIN ruleset) :
            ret' = [ret EXCEPT ![t] =
                      [text |-> rulesDiagram(stateType, ruleset, nodes, edges),
                       err |-> NoError]]
  /\ pc' = [pc EXCEPT ![t] = "unlock"]
  /\ UNCHANGED <<currentState, transitions, TransitionsV2, ruleset, mu, op,
                 targetState, metadata, fromState, ok, tn, clock, historyCapacity,
                 registered, entry, committed, toStates, script, held, data, temp,
                 newOrder, original, stateType, heap, refused>>

\* renderHistoryDiagram(fsm) -> (text, Error?)
GenerateMermaidTransitionHistoryDiagram(t) ==
  /\ pc[t] = "GenerateMermaidTransitionHistoryDiagram"
  /\ IF ~stringable(box(stateType, currentState))
     THEN ret' = [ret EXCEPT ![t] = diagramError("UnsupportedDisplayType")]
     ELSE IF transitions = <<>>
     THEN ret' = [ret EXCEPT ![t] = diagramError("EmptyHistory")]
     ELSE \E nodes \in Orders(historyStates(transitions)) :
            ret' = [ret EXCEPT ![t] =
                      [text |-> historyDiagram(stateType, transitions, nodes),
                       err |-> NoError]]
  /\ pc' = [pc EXCEPT ![t] = "unlock"]
  /\ UNCHANGED <<currentState, transitions, TransitionsV2, ruleset, mu, op,
                 targetState, metadata, fromState, ok, tn, clock, historyCapacity,
                 registered, entry, committed, toStates, script, held, data, temp,
                 newOrder, original, stateType, heap, refused>>

\* examples/struct/order.go 43-50, 144-150: rules are added and the rules
\* diagram is printed, for an FSM over each kind of state type
OpsRulesDiagram == {"AddRule", "GenerateMermaidRulesDiagram"}

InitRulesDiagram ==
  \E T \in StateTypes :
    fixtureOf(T, <<>>, [t \in Threads |-> NoValue], NoValue, <<>>)

NextRulesDiagram ==
  \E t \in Threads :
    \/ lock(t, OpsRulesDiagram)
    \/ AddRule(t)
    \/ GenerateMermaidRulesDiagram(t)
    \/ Unlock(t)

SpecRulesDiagram == InitRulesDiagram /\ [][NextRulesDiagram]_vars

\* examples/struct/order.go 52-158: transitions are made and both diagrams
\* printed, for an FSM over each kind of state type that has no rules, the
\* rules A->B, B->C or the rules A->B, B->A
OpsDiagram == {"Transition", "GenerateMermaidRulesDiagram",
               "GenerateMermaidTransitionHistoryDiagram"}

InitDiagram ==
  \E T \in StateTypes,
     rules \in {<<>>,
                appendRule(appendRule(<<>>, "A", <<"B">>), "B", <<"C">>),
                appendRule(appendRule(<<>>, "A", <<"B">>), "B", <<"A">>)} :
    fixtureOf(T, rules, [t \in Threads |-> NoValue], NoValue, <<>>)

NextDiagram ==
  \E t \in Threads :
    \/ lock(t, OpsDiagram)
    \/ TransitionValidate(t)
    \/ TransitionAppend(t)
    \/ TransitionCommit(t)
    \/ GenerateMermaidRulesDiagram(t)
    \/ GenerateMermaidTransitionHistoryDiagram(t)
    \/ Unlock(t)

SpecDiagram == InitDiagram /\ [][NextDiagram]_vars

\* ----------------------------------------------- second definition (SpecV2)
OpsV2 == {"CanTransition", "Transition"}

\* the call returns: the frame of the call is gone
returnV2(t) ==
  /\ pc' = [pc EXCEPT ![t] = "idle"]
  /\ op' = [op EXCEPT ![t] = NoValue]
  /\ targetState' = [targetState EXCEPT ![t] = NoValue]
  /\ metadata' = [metadata EXCEPT ![t] = NoValue]
  /\ fromState' = [fromState EXCEPT ![t] = NoValue]
  /\ ok' = [ok EXCEPT ![t] = NoValue]
  /\ tn' = [tn EXCEPT ![t] = NoValue]
  /\ ret' = [ret EXCEPT ![t] = NoValue]

\* line 250 (reached from line 282 of Transition too):
\* return fsm.canTransition(*fsm.CurrentState, targetState)
\* the argument *fsm.CurrentState is read before canTransition takes the mutex
CanTransitionV2(t) ==
  /\ pc[t] = "idle"
  /\ Len(committed) < MaxTransitions
  /\ \E o \in OpsV2, target \in States :
       /\ op' = [op EXCEPT ![t] = o]
       /\ targetState' = [targetState EXCEPT ![t] = target]
  /\ fromState' = [fromState EXCEPT ![t] = currentState]
  /\ pc' = [pc EXCEPT ![t] = "canTransitionLockV2"]
  /\ UNCHANGED <<currentState, transitions, TransitionsV2, ruleset, mu, metadata, ok,
                 tn, ret, clock, historyCapacity, registered, entry, committed,
                 toStates, script, held, data, temp, newOrder, original,
                 stateType, heap, refused>>

\* lines 255-256: fsm.mu.Lock() inside canTransition
canTransitionLockV2(t) ==
  /\ pc[t] = "canTransitionLockV2"
  /\ mu = NoThread
  /\ mu' = t
  /\ entry' = [currentState |-> currentState, transitions |-> transitions,
              ruleset |-> ruleset]
  /\ pc' = [pc EXCEPT ![t] = "canTransitionV2"]
  /\ UNCHANGED <<currentState, transitions, TransitionsV2, ruleset, op, targetState,
                 metadata, fromState, ok, tn, ret, clock, historyCapacity, registered,
                 committed, toStates, script, held, data, temp, newOrder, original,
                 stateType, heap, refused>>

\* lines 258-269: the lookup and the loop of canTransition
canTransitionV2(t) ==
  /\ pc[t] = "canTransitionV2"
  /\ ok' = [ok EXCEPT ![t] = canTransition(fromState[t], targetState[t])]
  /\ pc' = [pc EXCEPT ![t] = "canTransitionUnlockV2"]
  /\ UNCHANGED <<currentState, transitions, TransitionsV2, ruleset, mu, op,
                 targetState, metadata, fromState, tn, ret, clock, historyCapacity,
                 registered, entry, committed, toStates, script, held, data, temp,
                 newOrder, original,
                 stateType, heap, refused>>

\* the deferred fsm.mu.Unlock() of canTransition; CanTransition returns its result
\* to the caller, or to line 282 of Transition
canTransitionUnlockV2(t) ==
  /\ pc[t] = "canTransitionUnlockV2"
  /\ mu' = NoThread
  /\ entry' = NoValue
  /\ IF op[t] = "CanTransition"
     THEN returnV2(t)
     ELSE /\ pc' = [pc EXCEPT ![t] = IF ok[t] THEN "TransitionLockV2" ELSE "TransitionErrorV2"]
          /\ UNCHANGED <<op, targetState, metadata, fromState, ok, tn, ret>>
  /\ UNCHANGED <<currentState, transitions, TransitionsV2, ruleset, clock,
                 historyCapacity, registered, committed, toStates, script, held, data,
                 temp, newOrder, original,
                 stateType, heap, refused>>

\* lines 283-286: return nil, TransitionError[T]{FromState: *fsm.CurrentState, ToState: targetState}
TransitionErrorV2(t) ==
  /\ pc[t] = "TransitionErrorV2"
  /\ returnV2(t)
  /\ UNCHANGED <<currentState, transitions, TransitionsV2, ruleset, mu, clock,
                 historyCapacity, registered, entry, committed, toStates, script, held,
                 data, temp, newOrder, original,
                 stateType, heap, refused>>

\* lines 289-290: fsm.mu.Lock() of Transition, after the validation has returned
TransitionLockV2(t) ==
  /\ pc[t] = "TransitionLockV2"
  /\ mu = NoThread
  /\ mu' = t
  /\ entry' = [currentState |-> currentState, transitions |-> transitions,
              ruleset |-> ruleset]
  /\ pc' = [pc EXCEPT ![t] = "TransitionAppendV2"]
  /\ UNCHANGED <<currentState, transitions, TransitionsV2, ruleset, op, targetState,
                 metadata, fromState, ok, tn, ret, clock, historyCapacity, registered,
                 committed, toStates, script, held, data, temp, newOrder, original,
                 stateType, heap, refused>>

\* fsm.Transitions[key] = record: a map assignment replaces the record under an equal key
mapAssign(m, key, record) ==
  [k \in DOMAIN m \cup {key} |-> IF k = key THEN record ELSE m[k]]

\* lines 293-299: tn := time.Now(); fsm.Transitions[time.Now()] = Transition[T]{...}
TransitionAppendV2(t) ==
  /\ pc[t] = "TransitionAppendV2"
  /\ \E md \in MetadataValues : \E now \in Now(clock) : \E key \in Now(now) :
       /\ metadata' = [metadata EXCEPT ![t] = md]
       /\ clock' = key
       /\ tn' = [tn EXCEPT ![t] = now]
       /\ TransitionsV2' = mapAssign(TransitionsV2, key,
            TransitionRecord(currentState, targetState[t], now, md))
  /\ pc' = [pc EXCEPT ![t] = "TransitionCommitV2"]
  /\ UNCHANGED <<currentState, transitions, ruleset, mu, op, targetState, fromState,
                 ok, ret, historyCapacity, registered, entry, committed, toStates,
                 script, held, data, temp, newOrder, original,
                 stateType, heap, refused>>

\* lines 301-303: fsm.CurrentState = &targetState; return fsm.CurrentState, nil
TransitionCommitV2(t) ==
  /\ pc[t] = "TransitionCommitV2"
  /\ currentState' = targetState[t]
  /\ ret' = [ret EXCEPT ![t] = [state |-> currentState', err |-> NoError]]
  /\ committed' = Append(committed,
       TransitionRecord(entry.currentState, targetState[t], tn[t], metadata[t]))
  /\ pc' = [pc EXCEPT ![t] = "UnlockV2"]
  /\ UNCHANGED <<transitions, TransitionsV2, ruleset, mu, op, targetState, metadata,
                 fromState, ok, tn, clock, historyCapacity, registered, entry,
                 toStates, script, held, data, temp, newOrder, original,
                 stateType, heap, refused>>

\* lines 274-275: fsm.mu.Lock() of AddRule
AddRuleLockV2(t) ==
  /\ pc[t] = "idle"
  /\ RuleCount + 1 <= MaxRules
  /\ mu = NoThread
  /\ mu' = t
  /\ entry' = [currentState |-> currentState, transitions |-> transitions,
              ruleset |-> ruleset]
  /\ pc' = [pc EXCEPT ![t] = "AddRuleV2"]
  /\ op' = [op EXCEPT ![t] = "AddRule"]
  /\ UNCHANGED <<currentState, transitions, TransitionsV2, ruleset, targetState,
                 metadata, fromState, ok, tn, ret, clock, historyCapacity, registered,
                 committed, toStates, script, held, data, temp, newOrder, original,
                 stateType, heap, refused>>

\* func (fsm *FSM[T]) AddRule(fromState T, toState T): one target a call
AddRuleV2(t) ==
  /\ pc[t] = "AddRuleV2"
  /\ \E from \in States, to \in States :
       /\ ruleset' = appendRule(ruleset, from, <<to>>)
       /\ registered' = registered \cup {<<from, to>>}
  /\ pc' = [pc EXCEPT ![t] = "UnlockV2"]
  /\ UNCHANGED <<currentState, transitions, TransitionsV2, mu, op, targetState,
                 metadata, fromState, ok, tn, ret, clock, historyCapacity, entry,
                 committed, toStates, script, held, data, temp, newOrder, original,
                 stateType, heap, refused>>

\* the deferred fsm.mu.Unlock() of AddRule and of Transition; the call returns
UnlockV2(t) ==
  /\ pc[t] = "UnlockV2"
  /\ mu' = NoThread
  /\ entry' = NoValue
  /\ returnV2(t)
  /\ UNCHANGED <<currentState, transitions, TransitionsV2, ruleset, clock,
                 historyCapacity, registered, committed, toStates, script, held, data,
                 temp, newOrder, original,
                 stateType, heap, refused>>

NextV2 ==
  \E t \in Threads :
    \/ CanTransitionV2(t)
    \/ canTransitionLockV2(t)
    \/ canTransitionV2(t)
    \/ canTransitionUnlockV2(t)
    \/ TransitionErrorV2(t)
    \/ TransitionLockV2(t)
    \/ TransitionAppendV2(t)
    \/ TransitionCommitV2(t)
    \/ AddRuleLockV2(t)
    \/ AddRuleV2(t)
    \/ UnlockV2(t)

SpecV2 == Init /\ [][NextV2]_vars

\* ------------------------------------------------------------ properties
\* to occurs in the list the rule set holds for from
InRuleList(from, to) ==
  /\ from \in DOMAIN ruleset
  /\ \E i \in 1..Len(ruleset[from]) : ruleset[from][i] = to

\* thread t is about to return from the exported method o (its result is in ret[t])
Returning(t, o) == op[t] = o /\ pc[t] = "unlock"

\* C1: CanTransition(B), with A the current state, returns true exactly when B
\* occurs in the list of targets the AddRule calls so far accumulated for A, and
\* false when A has no list at all.
C1_CanTransitionIffRegistered ==
  \A t \in Threads :
    Returning(t, "CanTransition") =>
      /\ ret[t] = InRuleList(currentState, targetState[t])
      /\ ret[t] = (<<currentState, targetState[t]>> \in registered)
      /\ (currentState \notin DOMAIN ruleset => ret[t] = FALSE)

\* CanTransition answers true for a target that is second in the current state's list
C1_Witness ==
  \E t \in Threads :
    /\ Returning(t, "CanTransition")
    /\ ret[t] = TRUE
    /\ Len(ruleset[currentState]) = 2
    /\ ruleset[currentState][1] # targetState[t]
    /\ ruleset[currentState][2] = targetState[t]

\* C2: a Transition whose target is not in the current state's rule list leaves
\* the current state and the history as they were and returns the unchanged
\* current state with TransitionError{FromState: current, ToState: target}.
C2_InvalidTransitionChangesNothing ==
  \A t \in Threads :
    (Returning(t, "Transition") /\ ~InRuleList(entry.currentState, targetState[t])) =>
      /\ currentState = entry.currentState
      /\ transitions = entry.transitions
      /\ ret[t].state = entry.currentState
      /\ ret[t].err = {TransitionError(entry.currentState, targetState[t])}

\* a Transition is refused on an FSM that already has a history
C2_Witness ==
  \E t \in Threads :
    /\ Returning(t, "Transition")
    /\ ret[t].err # NoError
    /\ \E e \in ret[t].err : e.FromState # e.ToState
    /\ transitions # <<>>

\* C3: a Transition whose target is in the current state's rule list returns the
\* target and no error, makes the target the current state, and appends exactly
\* one record (previous state, target, metadata) at the end of the history.
C3_ValidTransitionAppendsOneRecord ==
  \A t \in Threads :
    (Returning(t, "Transition") /\ InRuleList(entry.currentState, targetState[t])) =>
      /\ ret[t] = [state |-> targetState[t], err |-> NoError]
      /\ currentState = targetState[t]
      /\ Len(transitions) = Len(entry.transitions) + 1
      /\ SubSeq(transitions, 1, Len(entry.transitions)) = entry.transitions
      /\ transitions[Len(transitions)].FromState = entry.currentState
      /\ transitions[Len(transitions)].ToState = targetState[t]
      /\ transitions[Len(transitions)].Metadata = metadata[t]

\* a second Transition succeeds, with metadata
C3_Witness ==
  \E t \in Threads :
    /\ Returning(t, "Transition")
    /\ ret[t].err = NoError
    /\ metadata[t] # NilMetadata
    /\ entry.transitions # <<>>
    /\ entry.currentState # targetState[t]

\* C6: the current state is the initial state while no Transition has committed,
\* and afterwards the ToState of the most recently committed transition.
C6_CurrentStateIsLastCommitted ==
  /\ Len(committed) = 0 => currentState = InitialState
  /\ Len(committed) > 0 =>
       /\ Len(committed) <= Len(transitions)
       /\ currentState = transitions[Len(committed)].ToState

\* two transitions have committed and the machine has left the initial state
C6_Witness ==
  /\ Len(committed) = 2
  /\ currentState # InitialState
  /\ transitions[1].ToState # currentState

\* thread t has validated its Transition and has not committed it yet
Validated(t) ==
  /\ op[t] = "Transition"
  /\ pc[t] \in {"append", "commit",
                "TransitionLockV2", "TransitionAppendV2", "TransitionCommitV2"}

\* the state thread t validated its target against
ValidatedFrom(t) ==
  IF pc[t] \in {"append", "commit"} THEN entry.currentState ELSE fromState[t]

\* thread t has logged its record and not yet committed the state
Logged(t) == pc[t] \in {"commit", "TransitionCommitV2"}

\* thread t is inside CurrentState() or Transitions(), about to read
Observing(t) == pc[t] \in {"CurrentState", "Transitions"}

\* C4: validate, log and commit of a Transition are one atomic unit: from its
\* validation to its commit no other call changes what it validated against,
\* and no observer reads the machine between a record's log and its commit.
C4_TransitionIsAtomic ==
  /\ \A t \in Threads :
       Validated(t) =>
         /\ canTransition(ValidatedFrom(t), targetState[t])
         /\ ~Logged(t) => currentState = ValidatedFrom(t)
  /\ \A t, o \in Threads : Logged(t) => ~Observing(o)

\* the record thread t logged: the last of the slice, or the one under the map
\* key the clock gave
LoggedRecords(t) ==
  IF pc[t] = "commit"
  THEN {transitions[Len(transitions)]}
  ELSE {TransitionsV2[k] : k \in {k \in DOMAIN TransitionsV2 : k >= tn[t]}}

\* the history holds a record (from, to) with the metadata and timestamp of t's call
HasRecordOf(t) ==
  LET mine(r) == /\ r.ToState = targetState[t]
                 /\ r.Timestamp = tn[t]
                 /\ r.Metadata = metadata[t]
  IN \/ \E i \in 1..Len(transitions) : mine(transitions[i])
     \/ \E k \in DOMAIN TransitionsV2 : mine(TransitionsV2[k])

\* C5: a record is appended if and only if it was validated at commit time:
\* the record a Transition logs is a pair the rule set permits at that moment,
\* from the current state of that moment, and a Transition that validated and
\* returns without error has its record in the history.
C5_RecordIffValidated ==
  \A t \in Threads :
    /\ Logged(t) =>
         \A r \in LoggedRecords(t) :
           (r.ToState = targetState[t] /\ r.Timestamp = tn[t]) =>
             /\ r.FromState = currentState
             /\ InRuleList(r.FromState, r.ToState)
    /\ (op[t] = "Transition" /\ pc[t] \in {"unlock", "UnlockV2"} /\ ret[t].err = NoError) =>
         HasRecordOf(t)

\* C7: the number of retained history records never exceeds the capacity the
\* FSM was constructed with.
C7_HistoryWithinCapacity ==
  Len(transitions) <= historyCapacity

Min(a, b) == IF a <= b THEN a ELSE b

\* C8: after N committed transitions with capacity C the history is the
\* min(N, C) most recent transitions, in commit order.
C8_HistoryIsMostRecent ==
  (\A t \in Threads : ~Logged(t)) =>
    LET n == Len(committed)
        k == Min(n, historyCapacity)
    IN /\ Len(transitions) = k
       /\ \A i \in 1..k : transitions[i] = committed[n - k + i]

\* C9: with capacity 0 the history is always empty, and permitted transitions
\* still succeed and change the current state.
C9_CapacityZeroRecordsNothing ==
  historyCapacity = 0 =>
    /\ transitions = <<>>
    /\ \A t \in Threads :
         (Returning(t, "Transition") /\ InRuleList(entry.currentState, targetState[t])) =>
           /\ ret[t].err = NoError
           /\ currentState = targetState[t]

\* the statement thread t executes next reads or writes the current state, the
\* rule set or the history
AccessesFSM(t) ==
  pc[t] \in {"CanTransition", "AddRule", "Transition", "append", "commit",
             "CurrentState", "Transitions",
             "canTransitionV2", "TransitionErrorV2", "TransitionAppendV2",
             "TransitionCommitV2", "AddRuleV2"}

\* C10: every read and write of the current state, the rule set and the
\* history by an exported method is made with the mutex held, and a Transition
\* keeps the mutex from its validation to its commit.
C10_LockHeldThroughout ==
  \A t \in Threads :
    /\ AccessesFSM(t) => mu = t
    /\ Validated(t) => mu = t

\* C19: AddRule(from, t1..tk) puts t1..tk, in argument order and keeping
\* duplicates, after what the list of from already held, and leaves the list
\* of every other state as it was.
RulesBefore(from) ==
  IF from \in DOMAIN entry.ruleset THEN entry.ruleset[from] ELSE <<>>

C19_AddRuleAppendsInOrder ==
  \A t \in Threads :
    Returning(t, "AddRule") =>
      LET from == fromState[t]
          to == toStates[t]
          old == RulesBefore(from)
      IN /\ DOMAIN ruleset = DOMAIN entry.ruleset \cup {from}
         /\ Len(ruleset[from]) = Len(old) + Len(to)
         /\ \A i \in 1..Len(old) : ruleset[from][i] = old[i]
         /\ \A i \in 1..Len(to) : ruleset[from][Len(old) + i] = to[i]
         /\ \A k \in DOMAIN entry.ruleset \ {from} : ruleset[k] = entry.ruleset[k]

\* a second AddRule for the same state repeats a target the list already holds
C19_Witness ==
  \E t \in Threads :
    /\ Returning(t, "AddRule")
    /\ RulesBefore(fromState[t]) # <<>>
    /\ toStates[t] # <<>>
    /\ toStates[t][1] = RulesBefore(fromState[t])[1]
    /\ Len(ruleset[fromState[t]]) = 2

\* C20: an AddRule that races with CanTransition or Transition is never seen
\* half done: while a thread validates, no other thread is inside AddRule, and
\* the rules it reads are exactly those of the AddRule calls made so far, each
\* with all of its targets.
Validating(t) == pc[t] \in {"CanTransition", "Transition"}

C20_AddRuleNeverSeenTorn ==
  \A t \in Threads :
    Validating(t) =>
      /\ \A u \in Threads \ {t} : pc[u] # "AddRule"
      /\ \A from \in States, to \in States :
           InRuleList(from, to) <=> <<from, to>> \in registered

\* a thread validates while the only rule list holds two different targets
C20_Witness ==
  \E t \in Threads :
    /\ Validating(t)
    /\ \E from \in DOMAIN ruleset :
         /\ Len(ruleset[from]) = 2
         /\ ruleset[from][1] # ruleset[from][2]
    /\ Cardinality(DOMAIN ruleset) = 1

\* C12: in Test_concurrencyRaceCondition nothing deadlocks, the state after
\* every goroutine has finished is B or C, and every record of the history is
\* an A->B or a B->C record with its timestamp set.
Finished == \A t \in Threads : pc[t] = "idle" /\ script[t] = <<>>

WellFormed(record) ==
  /\ <<record.FromState, record.ToState>> \in {<<"A", "B">>, <<"B", "C">>}
  /\ record.Timestamp \in 0..MaxClock

C12_RaceTestStaysWellFormed ==
  /\ Finished \/ ENABLED NextTest
  /\ Finished => currentState \in {"B", "C"}
  /\ \A i \in 1..Len(transitions) : WellFormed(transitions[i])

\* a goroutine is refused after the two transitions are on record, with calls left
C12_Witness ==
  \E t \in Threads :
    /\ Returning(t, "Transition")
    /\ ret[t].err # NoError
    /\ Len(transitions) = 2
    /\ \E u \in Threads \ {t} : script[u] # <<>>

\* C13: as stated, with a capacity of 10 the history of the race test holds
\* exactly 10 records once every goroutine has finished.
TestCapacity == 10

C13_RaceTestFillsHistory == Finished => Len(transitions) = TestCapacity

\* C13 as amended: once every goroutine has finished the history holds exactly
\* two records, the A->B record followed by the B->C record.
C13_RaceTestLeavesTwoRecords ==
  Finished =>
    /\ Len(transitions) = 2
    /\ <<transitions[1].FromState, transitions[1].ToState>> = <<"A", "B">>
    /\ <<transitions[2].FromState, transitions[2].ToState>> = <<"B", "C">>

\* every goroutine has finished and both records carry different timestamps
C13_Witness ==
  /\ Finished
  /\ Len(transitions) = 2
  /\ transitions[1].Timestamp < transitions[2].Timestamp

\* C11: the slice Transitions() returns is the caller's own: writing to it
\* changes nothing that a later Transitions(), MarshalJSON or String reads,
\* and no later step of the FSM changes a slice handed out earlier.
CallerWrites == held' # held /\ pc' = pc

HandsOut == \E t \in Threads : op[t] = "Transitions" /\ pc[t] = "unlock" /\ pc'[t] = "idle"

C11_TransitionsReturnsACopy ==
  [][/\ CallerWrites => UNCHANGED <<currentState, transitions, ruleset>>
     /\ (pc' # pc /\ ~HandsOut) => held' = held]_vars

\* a later Transitions() reports two records while the caller holds a slice it
\* has written a forged record into
C11_Witness ==
  \E t \in Threads :
    /\ Returning(t, "Transitions")
    /\ Len(ret[t].elems) = 2
    /\ \E i \in 1..Len(held.elems) : held.elems[i] = ForgedRecord

\* C18: the document MarshalJSON returns holds the current state and the
\* history of one instant: one entry for every transition committed so far
\* and for no other, oldest first, each with the from_state, to_state,
\* timestamp and metadata of its transition, and as current_state the state
\* the last of them led to.
Document(t) == ret[t].bytes.members

C18_DocumentIsOneInstant ==
  \A t \in Threads :
    Returning(t, "MarshalJSON") =>
      /\ ret[t].err = NoError
      /\ DOMAIN Document(t) = {"current_state", "transitions"}
      /\ Document(t).current_state =
           jsonString(IF committed = <<>> THEN InitialState
                      ELSE committed[Len(committed)].ToState)
      /\ IF committed = <<>>
         THEN Document(t).transitions = jsonNull
         ELSE /\ Document(t).transitions.kind = "array"
              /\ Len(Document(t).transitions.items) = Len(committed)
              /\ \A i \in 1..Len(committed) :
                   LET item == Document(t).transitions.items[i].members
                   IN /\ item.from_state = jsonString(committed[i].FromState)
                      /\ item.to_state = jsonString(committed[i].ToState)
                      /\ item.timestamp =
                           jsonString(formatRFC3339(committed[i].Timestamp))
                      /\ item.metadata =
                           (IF committed[i].Metadata = NilMetadata THEN jsonNull
                            ELSE jsonObject(committed[i].Metadata))

\* the document of Test_marshalJSON: two entries, the first with metadata
C18_Witness ==
  \E t \in Threads :
    /\ Returning(t, "MarshalJSON")
    /\ Document(t).current_state = jsonString("C")
    /\ Document(t).transitions.kind = "array"
    /\ Len(Document(t).transitions.items) = 2
    /\ Document(t).transitions.items[1].members.metadata.kind = "object"

\* C14: decoding the document MarshalJSON produced into a new FSM gives the
\* current state the original had and its history cut to the most recent
\* capacity records; the new FSM has no rules and permits no transition.
LastRecords(records, n) ==
  [i \in 1..Min(Len(records), n) |-> records[Len(records) - Min(Len(records), n) + i]]

C14_RoundTrip ==
  \A t \in Threads :
    pc[t] = "decoded" =>
      /\ newOrder[t].err = NoError
      /\ newOrder[t].currentState = original[t].currentState
      /\ newOrder[t].transitions = LastRecords(original[t].transitions, historyCapacity)
      /\ newOrder[t].ruleset = <<>>
      /\ \A target \in States :
           ~(/\ newOrder[t].currentState \in DOMAIN newOrder[t].ruleset
             /\ \E i \in DOMAIN newOrder[t].ruleset[newOrder[t].currentState] :
                  newOrder[t].ruleset[newOrder[t].currentState][i] = target)

\* a history of two records comes back as its most recent record
C14_Witness ==
  \E t \in Threads :
    /\ pc[t] = "decoded"
    /\ Len(original[t].transitions) = 2
    /\ Len(newOrder[t].transitions) = 1
    /\ newOrder[t].currentState = "C"

\* the transitions a document lists, as records, in the order of the list
Listed(t) ==
  IF data[t].members.transitions.kind = "null" THEN <<>>
  ELSE [i \in 1..Len(data[t].members.transitions.items) |->
          LET item == data[t].members.transitions.items[i].members
          IN [FromState |-> item.from_state.value,
              ToState |-> item.to_state.value,
              Timestamp |-> CHOOSE ts \in 0..MaxClock :
                              formatRFC3339(ts) = item.timestamp.value,
              Metadata |-> IF item.metadata.kind = "null" THEN NilMetadata
                           ELSE item.metadata.members]]

DecodedOK(t) == Returning(t, "UnmarshalJSON") /\ ret[t].err = NoError

C16_DecodeKeepsMostRecent ==
  \A t \in Threads :
    (DecodedOK(t) /\ Len(Listed(t)) > historyCapacity) =>
      /\ Len(transitions) = historyCapacity
      /\ \A i \in 1..historyCapacity :
           transitions[i] = Listed(t)[Len(Listed(t)) - historyCapacity + i]

\* capacity 1, a document of two transitions: the B->C record is the one kept
C16_Witness ==
  \E t \in Threads :
    /\ DecodedOK(t)
    /\ historyCapacity = 1
    /\ Len(Listed(t)) = 2
    /\ Len(transitions) = 1
    /\ transitions[1].ToState = "C"

\* C17: a malformed document is reported and leaves state, history and rules
\* as they were when the call began; and while a decode is between replacing
\* the state and replacing the history, no other thread is inside the FSM.
InsideFSM(t) == pc[t] \notin {"idle", "newOrder", "decoded"}

C17_DecodeIsAtomic ==
  \A t \in Threads :
    /\ Returning(t, "UnmarshalJSON") =>
         /\ malformed(data[t]) <=> ret[t].err # NoError
         /\ ret[t].err # NoError =>
              /\ currentState = entry.currentState
              /\ transitions = entry.transitions
              /\ ruleset = entry.ruleset
    /\ pc[t] \in {"replaceState", "replaceHistory"} =>
         \A u \in Threads \ {t} : ~InsideFSM(u)

\* a document of the wrong shape is refused by an FSM that has a history
C17_Witness ==
  \E t \in Threads :
    /\ Returning(t, "UnmarshalJSON")
    /\ ret[t].err # NoError
    /\ data[t].kind = "object"
    /\ Len(transitions) = 2

\* the text a state is displayed as in a diagram of thread t's FSM
Shown(state) ==
  IF stateType = "OrderState" THEN state \o ":dropship:v1" ELSE state

\* thread t is about to return a diagram (no error) from the method o
Rendered(t, o) == Returning(t, o) /\ ret[t].err = NoError

\* C21: the rules diagram begins with `graph LR;`, then has one node line for
\* every from-state key of the rule set and for no other state, then one edge
\* line `<from> --> <to>;` for every entry of every rule list, duplicates
\* included, the edges of one from-state together and in the order of its list.
C21_RulesDiagram ==
  \A t \in Threads :
    Rendered(t, "GenerateMermaidRulesDiagram") =>
      LET text == ret[t].text
          n == Cardinality(DOMAIN ruleset)
          nodes == SubSeq(text, 2, n + 1)
          edges == SubSeq(text, n + 2, Len(text))
      IN /\ text[1] = "graph LR;"
         /\ Len(text) = 1 + n + RuleCount
         /\ {nodes[i] : i \in 1..n} = {Shown(k) \o ";" : k \in DOMAIN ruleset}
         /\ \A k \in DOMAIN ruleset :
              \E p \in 0..Len(edges) :
                \A j \in 1..Len(ruleset[k]) :
                  /\ p + j <= Len(edges)
                  /\ edges[p + j] =
                       Shown(k) \o " --> " \o Shown(ruleset[k][j]) \o ";"

\* the diagram of the rules A->B, A->C over a type with a String() method:
\* one node line, for A, and the two edges in the order they were registered
C21_Witness ==
  \E t \in Threads :
    /\ Rendered(t, "GenerateMermaidRulesDiagram")
    /\ ret[t].text = <<"graph LR;", "A:dropship:v1;",
                       "A:dropship:v1 --> B:dropship:v1;",
                       "A:dropship:v1 --> C:dropship:v1;">>

\* C22: the history diagram begins with `graph TD;`, then has exactly one node
\* line for every state that is the from-state or the to-state of a record of
\* the history, then one edge line `<from> -->|<seq>| <to>;` per record, oldest
\* first, seq being the record's position counted from 1.
C22_HistoryDiagram ==
  \A t \in Threads :
    Rendered(t, "GenerateMermaidTransitionHistoryDiagram") =>
      LET text == ret[t].text
          ends == {r.FromState : r \in {transitions[i] : i \in 1..Len(transitions)}}
                  \cup {r.ToState : r \in {transitions[i] : i \in 1..Len(transitions)}}
          n == Cardinality(ends)
      IN /\ text[1] = "graph TD;"
         /\ Len(text) = 1 + n + Len(transitions)
         /\ {text[1 + i] : i \in 1..n} = {Shown(state) \o ";" : state \in ends}
         /\ \A i \in 1..Len(transitions) :
              text[1 + n + i] =
                Shown(transitions[i].FromState) \o " -->|" \o ToString(i) \o "| "
                \o Shown(transitions[i].ToState) \o ";"

\* the diagram of the history A->B, B->C over plain strings: three node lines
\* and the edges numbered 1 and 2
C22_Witness ==
  \E t \in Threads :
    /\ Rendered(t, "GenerateMermaidTransitionHistoryDiagram")
    /\ Len(ret[t].text) = 6
    /\ {ret[t].text[i] : i \in 2..4} = {"A;", "B;", "C;"}
    /\ ret[t].text[5] = "A -->|1| B;"
    /\ ret[t].text[6] = "B -->|2| C;"

\* the state type is string itself or has a String() method
HasDisplayConversion == stateType \in {"string", "OrderState"}

\* the FSM is as it was when the call running now took the mutex
AsAtEntry ==
  /\ currentState = entry.currentState
  /\ transitions = entry.transitions
  /\ ruleset = entry.ruleset

\* C23: a diagram method returns an error and no text, with the FSM as it was,
\* when the state type has no display conversion (either diagram), when the
\* rule set is empty (rules diagram) or when the history is empty (history
\* diagram); in every other case it returns a text and no error.
C23_DiagramErrors ==
  \A t \in Threads :
    /\ Returning(t, "GenerateMermaidRulesDiagram") =>
         /\ ret[t].err # NoError <=> (~HasDisplayConversion \/ DOMAIN ruleset = {})
         /\ ~HasDisplayConversion => ret[t].err = {"UnsupportedDisplayType"}
         /\ ret[t].err # NoError <=> ret[t].text = <<>>
         /\ AsAtEntry
    /\ Returning(t, "GenerateMermaidTransitionHistoryDiagram") =>
         /\ ret[t].err # NoError <=> (~HasDisplayConversion \/ transitions = <<>>)
         /\ ~HasDisplayConversion => ret[t].err = {"UnsupportedDisplayType"}
         /\ ret[t].err # NoError <=> ret[t].text = <<>>
         /\ AsAtEntry

\* the history diagram of an FSM over the tests' CustomStateEnum, a string type
\* without a String() method, is refused although the FSM has a history
C23_Witness ==
  \E t \in Threads :
    /\ Returning(t, "GenerateMermaidTransitionHistoryDiagram")
    /\ stateType = "CustomStateEnum"
    /\ Len(transitions) = 2
    /\ ret[t] = [text |-> <<>>, err |-> {"UnsupportedDisplayType"}]

\* thread t is about to return from a Transition that succeeded
Succeeded(t) ==
  /\ Returning(t, "Transition")
  /\ ret[t] = [state |-> targetState[t], err |-> NoError]
  /\ currentState = targetState[t]

\* C24: the FSM stays usable after a Transition has returned TransitionError:
\* a later Transition whose target the rules permit from the current state
\* succeeds, also when the target is one that was refused from that state
\* before and its rule has been added since; and the mutex is held only by a
\* thread that is inside a call, never by one whose call has returned.
C24_UsableAfterError ==
  /\ \A t \in Threads : pc[t] = "idle" => mu # t
  /\ (\A t \in Threads : pc[t] = "idle") => mu = NoThread
  /\ refused # {} =>
       \A t \in Threads :
         (Returning(t, "Transition") /\ InRuleList(entry.currentState, targetState[t])) =>
           Succeeded(t)
  /\ \A t \in Threads, e \in refused :
       (/\ Returning(t, "Transition")
        /\ e = TransitionError(entry.currentState, targetState[t])
        /\ <<e.FromState, e.ToState>> \in registered) =>
         Succeeded(t)

\* Transition(C) was refused in state A, the rule A->C was added, and the
\* retry of Transition(C) succeeds
C24_Witness ==
  \E t \in Threads :
    /\ Succeeded(t)
    /\ entry.currentState = "A"
    /\ targetState[t] = "C"
    /\ TransitionError("A", "C") \in refused

\* thread u keeps a document that was made of the current state and history
KeepsDocumentOfNow(u) ==
  /\ pc[u] = "newOrder"
  /\ original[u].currentState = currentState
  /\ original[u].transitions = transitions

\* C25: the document MarshalJSON returns does not depend on the rule set: it
\* equals every document made earlier of the same current state and the same
\* history, whatever the rules were then and are now, and it has no member
\* besides current_state and transitions.
C25_RulesNotSerialized ==
  \A t \in Threads :
    Returning(t, "MarshalJSON") =>
      /\ DOMAIN ret[t].bytes.members = {"current_state", "transitions"}
      /\ \A u \in Threads \ {t} : KeepsDocumentOfNow(u) => ret[t].bytes = data[u]

\* a second document is made of the state B and the history A->B after the
\* rule B->C was added to the rules the first document was made under
C25_Witness ==
  \E t \in Threads, u \in Threads :
    /\ Returning(t, "MarshalJSON")
    /\ KeepsDocumentOfNow(u)
    /\ currentState = "B"
    /\ Len(transitions) = 1
    /\ original[u].ruleset # ruleset
    /\ InRuleList("B", "C")
    /\ "B" \notin DOMAIN original[u].ruleset

\* a record as a reader finds it: its fields, with the content of its map
ReadRecord(maps, record) ==
  [record EXCEPT !.Metadata = IF record.Metadata \in DOMAIN maps
                              THEN maps[record.Metadata]
                              ELSE record.Metadata]

\* C26: the record of a committed transition never changes while it is
\* retained: no step, be it of an FSM method, of a caller writing to the map
\* it passed to Transition or of a caller writing to the metadata of a record
\* it got from Transitions(), changes the FromState, ToState, Timestamp or
\* Metadata a reader finds in a record that is in the history before and
\* after the step.
C26_RecordsAreImmutable ==
  [][\A i \in 1..Len(committed) :
       (i <= Len(transitions) /\ i <= Len(transitions')) =>
         ReadRecord(heap', transitions'[i]) = ReadRecord(heap, transitions[i])]_vars

\* the step is one of thread t
Acting(t) == pc'[t] # pc[t]

ReadOnlyMethods == {"CanTransition", "CurrentState", "Transitions", "MarshalJSON", "String"}

\* C27: a step changes the current state or the history only if it is a step
\* of a Transition that has validated its target, and the rule set only if it
\* is a step of AddRule: CanTransition, CurrentState, Transitions, MarshalJSON,
\* String and a Transition that returns an error leave current state, history
\* and rule set as they were, and AddRule leaves current state and history as
\* they were.
C27_FrameEffects ==
  [][/\ \A t \in Threads :
          Acting(t) =>
            /\ op[t] \in ReadOnlyMethods \cup {NoValue} =>
                 UNCHANGED <<currentState, transitions, ruleset>>
            /\ op[t] = "AddRule" => UNCHANGED <<currentState, transitions>>
            /\ op[t] = "Transition" =>
                 /\ UNCHANGED ruleset
                 /\ pc[t] \notin {"append", "commit"} =>
                      UNCHANGED <<currentState, transitions>>
                 /\ (pc[t] = "unlock" /\ ret[t].err # NoError) => AsAtEntry
     /\ (\A t \in Threads : ~Acting(t)) =>
          UNCHANGED <<currentState, transitions, ruleset>>]_vars

\* String() returns the text of an FSM in state B with the rules A->B, B->C
\* and the record of its one transition
C27_Witness ==
  \E t \in Threads :
    /\ Returning(t, "String")
    /\ ret[t][1] = "Current State: B"
    /\ \E i \in 1..Len(ret[t]) : ret[t][i] = "\tB -> [C]"
    /\ ret[t][Len(ret[t])] = "\t{A B 0xc000011 map[requested_by:Mahmoud]}"
    /\ AsAtEntry

\* a Transition from the state from to the target to has committed before
CommittedBefore(from, to) ==
  \E i \in 1..Len(committed) :
    committed[i].FromState = from /\ committed[i].ToState = to

\* C28: the rule set only grows: every pair an AddRule call ever registered
\* is permitted now, inside a call every list the rule set had when the call
\* began is a prefix of the list it has now, and a Transition from S to T
\* succeeds whenever a Transition from S to T has succeeded before.
C28_RulesAppendOnly ==
  /\ \A pair \in registered : canTransition(pair[1], pair[2])
  /\ mu # NoThread =>
       \A from \in DOMAIN entry.ruleset :
         /\ from \in DOMAIN ruleset
         /\ Len(ruleset[from]) >= Len(entry.ruleset[from])
         /\ SubSeq(ruleset[from], 1, Len(entry.ruleset[from])) = entry.ruleset[from]
  /\ \A t \in Threads :
       (Returning(t, "Transition") /\ CommittedBefore(entry.currentState, targetState[t])) =>
         Succeeded(t)

\* Transition(A) succeeds from A a second time, with a second rule in the rule
\* set besides the rule A->A
C28_Witness ==
  \E t \in Threads :
    /\ Succeeded(t)
    /\ entry.currentState = "A"
    /\ targetState[t] = "A"
    /\ Len(committed) = 2
    /\ <<committed[1].FromState, committed[1].ToState>> = <<"A", "A">>
    /\ RuleCount = 2

\* C29: a Transition or CanTransition whose target is the current state S is
\* treated like any other: unless an AddRule call registered S as a target of
\* S, Transition(S) returns TransitionError{S, S} and leaves state and history
\* as they were and CanTransition(S) returns false; if S was registered as a
\* target of S, Transition(S) succeeds and appends one record (S, S).
C29_NoImplicitSelfTransition ==
  \A t \in Threads :
    /\ (Returning(t, "Transition") /\ targetState[t] = entry.currentState) =>
         LET S == entry.currentState
         IN IF <<S, S>> \in registered
            THEN /\ ret[t] = [state |-> S, err |-> NoError]
                 /\ currentState = S
                 /\ Len(transitions) = Len(entry.transitions) + 1
                 /\ transitions[Len(transitions)].FromState = S
                 /\ transitions[Len(transitions)].ToState = S
            ELSE /\ ret[t] = [state |-> S, err |-> {TransitionError(S, S)}]
                 /\ currentState = S
                 /\ transitions = entry.transitions
    /\ (Returning(t, "CanTransition") /\ targetState[t] = currentState) =>
         ret[t] = (<<currentState, currentState>> \in registered)

\* as in Test_transition: in state B, reached by A->B, with a rule B->C,
\* Transition(B) is refused
C29_Witness ==
  \E t \in Threads :
    /\ Returning(t, "Transition")
    /\ entry.currentState = "B"
    /\ targetState[t] = "B"
    /\ ret[t].err = {TransitionError("B", "B")}
    /\ InRuleList("B", "C")
    /\ Len(transitions) = 1

\* C30: a successful Transition reads the clock, appends the record and then
\* sets the current state, holding the mutex throughout: between the append
\* and the assignment the last record of the history is the caller's, with
\* the time it read, and the current state is still the one it left; every
\* record of the history has its timestamp set, and the timestamps never
\* decrease along the history.
C30_TimestampsInOrder ==
  /\ \A t \in Threads :
       /\ pc[t] \in {"append", "commit"} => mu = t
       /\ pc[t] = "append" =>
            /\ transitions = entry.transitions
            /\ currentState = entry.currentState
       /\ pc[t] = "commit" =>
            /\ transitions =
                 Append(entry.transitions,
                        TransitionRecord(entry.currentState, targetState[t], tn[t],
                                         metadata[t]))
            /\ currentState = entry.currentState
  /\ \A i \in 1..Len(transitions) : transitions[i].Timestamp \in 0..clock
  /\ \A i, j \in 1..Len(transitions) :
       i < j => transitions[i].Timestamp <= transitions[j].Timestamp

\* a second record has been appended with a later time than the first, and
\* the current state is not updated yet
C30_Witness ==
  \E t \in Threads :
    /\ pc[t] = "commit"
    /\ Len(transitions) = 2
    /\ transitions[1].Timestamp = 0
    /\ transitions[2].Timestamp = 1
    /\ currentState # targetState[t]

\* thread t is inside a call of an exported method
InCall(t) == pc[t] # "idle"

\* some thread that is inside a call can take its next step
CanStep == ENABLED (\E t \in Threads : muLock(t) \/ Body(t))

\* C31: under fair scheduling every call that has started returns; whenever
\* some call is in progress some call can go on (no deadlock); a thread that
\* waits for the mutex does not hold it, a thread past its Lock() holds it
\* until it returns, and a thread outside every call does not hold it (after
\* the error return of Transition too).
C31_EveryCallReturns ==
  /\ [](\A t \in Threads :
          /\ pc[t] \in {"idle", "lock"} => mu # t
          /\ (InCall(t) /\ pc[t] # "lock") => mu = t)
  /\ []((\E t \in Threads : InCall(t)) => CanStep)
  /\ \A t \in Threads : InCall(t) ~> ~InCall(t)

\* a thread waits for the mutex while another is at the error return of
\* Transition, the mutex still held
C31_Witness ==
  \E t, u \in Threads :
    /\ pc[t] = "lock"
    /\ pc[u] = "unlock (error)"
    /\ mu = u

\* the records of the second definition's map in the order of their keys
RECURSIVE recordsByKey(_)
recordsByKey(key) ==
  IF key > MaxClock THEN <<>>
  ELSE (IF key \in DOMAIN TransitionsV2 THEN <<TransitionsV2[key]>> ELSE <<>>)
       \o recordsByKey(key + 1)

\* the history the FSM holds: the slice of the first definition, the map of
\* the second
History == IF DOMAIN TransitionsV2 = {} THEN transitions ELSE recordsByKey(0)

\* no Transition is between its append and its assignment to the current state
NoneMidway == \A t \in Threads : pc[t] \notin {"commit", "TransitionCommitV2"}

\* C32: between the Transition calls (none of them midway, between its append
\* and its assignment) the history is a chain: each record's ToState is the
\* next record's FromState, the last record's ToState is the current state,
\* and the first record's FromState is the initial state (no definition has
\* a capacity, so no record is ever evicted).
C32_HistoryIsAChain ==
  NoneMidway =>
    /\ \A i \in 1..(Len(History) - 1) : History[i].ToState = History[i + 1].FromState
    /\ History # <<>> =>
         /\ History[Len(History)].ToState = currentState
         /\ History[1].FromState = InitialState

\* the states one edge of the current rule set leads to from a state of S
Successors(S) ==
  S \cup {to \in States : \E from \in S : InRuleList(from, to)}

\* the states a path of n or fewer edges of the current rule set leads to from S
RECURSIVE Within(_, _)
Within(S, n) == IF n = 0 THEN S ELSE Within(Successors(S), n - 1)

\* the states a path of zero or more edges leads to from the initial state
ReachableStates == Within({InitialState}, Cardinality(States))

\* C33: the current state is reachable from the initial state by a path of
\* zero or more edges of the current rule set, and it is the initial state or
\* a state some AddRule call registered as a target.
C33_CurrentStateIsReachable ==
  /\ currentState \in ReachableStates
  /\ \/ currentState = InitialState
     \/ \E pair \in registered : pair[2] = currentState

\* the machine is in C, two edges away from the initial state, and no rule
\* leads from A to C
C33_Witness ==
  /\ currentState = "C"
  /\ Len(committed) = 2
  /\ ~InRuleList("A", "C")
  /\ \A t \in Threads : pc[t] = "idle"

\* the (FromState, ToState) pairs of the committed transitions, in commit order
CommittedPairs == [i \in 1..Len(committed) |-> <<committed[i].FromState, committed[i].ToState>>]

\* goroutine t has returned from the second call of its loop: one full round
RoundDone(t) ==
  /\ script[t] # NoValue
  /\ \/ Len(script[t]) < 2 * MaxRounds - 2
     \/ Len(script[t]) = 2 * MaxRounds - 2 /\ pc[t] = "idle"

\* C34: in the race test one Transition to B and then one Transition to C
\* succeed and no other (both have succeeded once the goroutines are done);
\* once a goroutine has completed a full round the current state is C; a
\* Transition that starts in C fails and leaves C, and no step leaves C.
C34_RaceScenario ==
  /\ [](/\ CommittedPairs \in {<<>>, <<(<<"A", "B">>)>>, <<(<<"A", "B">>), (<<"B", "C">>)>>}
        /\ Finished => Len(committed) = 2
        /\ (\E t \in Threads : RoundDone(t)) => currentState = "C"
        /\ \A t \in Threads :
             (Returning(t, "Transition") /\ entry.currentState = "C") =>
               /\ ret[t].err # NoError
               /\ currentState = "C")
  /\ [][currentState = "C" => currentState' = "C"]_vars

\* a goroutine has completed a round and another one's Transition(B), started
\* in C, is refused
C34_Witness ==
  \E t, u \in Threads :
    /\ t # u
    /\ RoundDone(t)
    /\ Returning(u, "Transition")
    /\ targetState[u] = "B"
    /\ entry.currentState = "C"
    /\ ret[u].err # NoError

\* no call is in progress
Quiescent == \A t \in Threads : pc[t] = "idle"

\* h is a history some sequential execution of Transition and AddRule calls
\* leaves behind, state the current state it ends in: every record starts
\* where the one before it ended (the first in the initial state) and moves
\* along a pair an AddRule call registered
SequentialHistory(h, state) ==
  /\ \A i \in 1..Len(h) :
       /\ h[i].FromState = (IF i = 1 THEN InitialState ELSE h[i - 1].ToState)
       /\ <<h[i].FromState, h[i].ToState>> \in registered
  /\ state = (IF h = <<>> THEN InitialState ELSE h[Len(h)].ToState)

\* C35: what the concurrent calls leave behind is what some sequential
\* execution of the same calls leaves behind.  Whenever all calls have
\* returned, the history with the current state is a sequential history and
\* the rule set permits exactly the pairs the AddRule calls registered.
C35_Linearizable ==
  Quiescent =>
    /\ SequentialHistory(History, currentState)
    /\ \A from, to \in States : InRuleList(from, to) <=> <<from, to>> \in registered

\* thread t is about to return from Transition, in either definition
TransitionReturning(t) == op[t] = "Transition" /\ pc[t] \in {"unlock", "UnlockV2"}

\* the rule set the FSM had when t took the mutex permits t's target from the
\* current state of that moment
PermittedAtLock(t) ==
  /\ entry.currentState \in DOMAIN entry.ruleset
  /\ \E i \in 1..Len(entry.ruleset[entry.currentState]) :
       entry.ruleset[entry.currentState][i] = targetState[t]

\* t asked CanTransition for its target before, and nothing has changed the
\* FSM between that call and this Transition
Uninterrupted(t) == <<entry>> = original[t]

\* C36: Transition(t) decides on the rule set and the current state of the
\* moment it holds the mutex: it returns without error exactly when they
\* permit the target, whatever an earlier CanTransition(t) answered; and when
\* nothing intervened since that CanTransition(t), it returns without error
\* exactly when the answer was true.
C36_CheckAndTransitionAgree ==
  \A t \in Threads :
    TransitionReturning(t) =>
      /\ ret[t].err = NoError <=> PermittedAtLock(t)
      /\ Uninterrupted(t) => (ret[t].err = NoError <=> ok[t])

\* thread t remembers a Transition that found the current state and the rule
\* set thread u's Transition found, and had u's target
SameQuestion(t, u) ==
  /\ original[t] # NoValue
  /\ original[t][1].currentState = entry.currentState
  /\ original[t][1].ruleset = entry.ruleset
  /\ original[t][1].targetState = targetState[u]

\* C37: the outcome of Transition is determined by the current state, the rule
\* set and the target alone.  A Transition that finds the current state and
\* rule set an earlier Transition found, and has its target, returns the same
\* error or nil and leaves the same current state, whatever the two histories
\* and the two metadata arguments were.
C37_OutcomeDetermined ==
  \A t, u \in Threads :
    (Returning(u, "Transition") /\ SameQuestion(t, u)) =>
      /\ ret[u].err = original[t][1].err
      /\ ret[u].state = original[t][1].newState
      /\ currentState = original[t][1].newState

\* two successful Transitions on one question, with different histories and
\* different metadata
C37_Witness ==
  \E t, u \in Threads :
    /\ Returning(u, "Transition")
    /\ SameQuestion(t, u)
    /\ ret[u].err = NoError
    /\ original[t][1].transitions # entry.transitions
    /\ original[t][1].metadata # metadata[u]

\* x is a plain string: the assertion x.(string) holds
IsString(x) == x.type = "string"

\* the type of x declares a String() method: OrderState does (order.go 34),
\* CustomStateEnum and CustomStruct do not
HasStringMethod(x) == x.type = "OrderState"

\* the test function t called f on the input x and has its result in ret[t]
Applied(t, f, x) == pc[t] = "compare" /\ op[t] = f /\ Head(script[t]) = x

\* C38: stringable(x) is true exactly when x is a plain string or has a
\* String() method; toString(x) is x itself for a string, x.String() for a
\* value with a String() method and the default formatting of x otherwise;
\* so when stringable(x) is true, toString(x) is x itself or x.String(), the
\* result of one of the two branches before the default formatting.
C38_StringableAndToString ==
  \A t \in Threads, x \in Inputs :
    /\ Applied(t, "stringable", x) =>
         (ret[t] <=> (IsString(x) \/ HasStringMethod(x)))
    /\ Applied(t, "toString", x) =>
         /\ IsString(x) => ret[t] = x.value
         /\ (~IsString(x) /\ HasStringMethod(x)) => ret[t] = StringMethod(x)
         /\ (~IsString(x) /\ ~HasStringMethod(x)) => ret[t] = Sprintf(x)
         /\ stringable(x) =>
              \/ IsString(x) /\ ret[t] = x.value
              \/ HasStringMethod(x) /\ ret[t] = StringMethod(x)

\* toString of an OrderState is the text of its String() method while
\* another test finds a CustomStateEnum not stringable
C38_Witness ==
  \E t, u \in Threads :
    /\ Applied(t, "toString", box("OrderState", "A"))
    /\ ret[t] = "A:dropship:v1"
    /\ Applied(u, "stringable", box("CustomStateEnum", "B"))
    /\ ret[u] = FALSE
====
